---- MODULE Spec2Model ----
(***************************************************************************)
(* A model of the basketball data collector (src/basketball_data.py):      *)
(* the per-team parallel fetch, the merge of the per-team results into     *)
(* season collections, the request formatter, the retrying transport, the  *)
(* two-tier cache with the accessors over it, the collection run, the      *)
(* files it writes (flattening, CSV headers, file names), the main         *)
(* progress under the worker threads, and the dashboard's load_data        *)
(* (src/gui.py) over the written files.                                    *)
(***************************************************************************)
EXTENDS Integers, Sequences, FiniteSets, TLC

VARIABLES
    \* ---- deduplication and aggregation (collect_comprehensive_data) ----
    games_results,      \* dict team -> games, as its items in insertion order
    betting_results,    \* dict team -> betting lines, items in insertion order
    all_games,          \* merged games list
    all_betting_lines,  \* merged betting-lines list
    mpc                 \* position of the merge: "input", "games_merged", "lines_merged"

mergeVars == <<games_results, betting_results, all_games, all_betting_lines, mpc>>

VARIABLES
    \* ---- one _parallel_fetch call ----
    teams,              \* the roster handed to _parallel_fetch
    fetch_type,         \* 'games', 'stats', 'betting_lines' or 'ratings'
    outcome,            \* per roster position: what the accessor does for that team
    unit,               \* per roster position: "pending", "running", "done", "counted"
    completed,          \* the loop counter of the as_completed loop
    subSeq,             \* the subtask values delivered to the progress window, in order
    results,            \* the results dict, team name -> data
    ppc                 \* "idle", "pool" (inside the with block) or "returned"

poolVars == <<teams, fetch_type, outcome, unit, completed, subSeq, results, ppc>>

VARIABLES
    \* ---- one run of run_data_collection ----
    pc,                 \* position of the run
    exit,               \* how the run ended: "none" while it runs
    api_key,            \* whether API_KEY is set in the environment
    max_teams,          \* collector.max_teams
    api_teams,          \* what the teams endpoint answers, unfiltered and for the season
    roster,             \* the local `teams` of collect_comprehensive_data
    statusSeq,          \* the status strings delivered to the progress window, in order
    files,              \* the data files written under data_output
    fetches,            \* the number of _parallel_fetch calls started
    stats_results,      \* dict team -> stats rows, items in insertion order
    ratings_results,    \* dict team -> ratings, items in insertion order
    all_stats,          \* aggregated team stats
    all_ratings         \* aggregated ratings

runVars == <<pc, exit, api_key, max_teams, api_teams, roster, statusSeq, files,
             fetches, stats_results, ratings_results, all_stats, all_ratings>>

VARIABLES
    \* ---- one call of _make_request or of get_games ----
    rq_pc,              \* "idle" before the call, "done" after it
    rq_call,            \* the call and its arguments
    rq_sent,            \* the requests handed to session.get, in order
    rq_ret,             \* what the call returned: "none" (None or []), "data", "cached"
    rq_saved,           \* whether the call wrote the games cache entry
    rq_ops,             \* completed_operations, in tenths
    rq_progress         \* the main-progress values delivered, in tenths of a percent

reqVars == <<rq_pc, rq_call, rq_sent, rq_ret, rq_saved, rq_ops, rq_progress>>

VARIABLES
    \* ---- one session.get of the retrying transport ----
    tx_pc,              \* "idle", "sending" (inside session.get) or "done"
    tx_log,             \* what each attempt sent on the wire met, in order
    tx_ret              \* what _make_request returns: "none" or "data"

txVars == <<tx_pc, tx_log, tx_ret>>

VARIABLES
    \* ---- the two-tier cache and the accessors over it ----
    cache,              \* self.cache: cache key -> collection
    disk,               \* the cache files of data_output: cache key -> file content
    cache_log,          \* the _save_to_cache and _load_cached_data calls made, in order
    acc_call,           \* the last call: the operation and its arguments
    acc_out,            \* what the last call did: requests, return value, writes
    acc_n               \* the number of calls made

cacheVars == <<cache, disk, cache_log, acc_call, acc_out, acc_n>>

VARIABLES
    \* ---- the files written by the two save functions ----
    sv_pc,              \* "teams" (in _save_games_by_team), "kind", or "saved"
    sv_games,           \* games_results: the items (team, games) in insertion order
    sv_i,               \* how many items of games_results have been written
    sv_type,            \* the data_type of the _save_data_with_progress call
    sv_data,            \* the collection handed to _save_data_with_progress
    sv_files            \* the files under data_output: path -> content

saveVars == <<sv_pc, sv_games, sv_i, sv_type, sv_data, sv_files>>

VARIABLES
    \* ---- the main progress under the worker threads ----
    pg_phase,           \* the fetch of the run in progress: 1..4, 5 when all are over
    pg_pc,              \* "fetch" (inside _parallel_fetch) or "between" (outside)
    pg_ops,             \* self.completed_operations, in tenths
    pg_sum,             \* the sum of the increments _increment_progress was called with
    pg_progress,        \* the last main-progress value delivered, in tenths of a percent
    pg_worker           \* per worker thread: where it is in its request

progVars == <<pg_phase, pg_pc, pg_ops, pg_sum, pg_progress, pg_worker>>

auxVars == <<reqVars, txVars, cacheVars, saveVars, progVars>>

vars == <<mergeVars, poolVars, runVars, auxVars>>

-----------------------------------------------------------------------------
(* Bounds of the model *)

\* most game records over all teams of one games_results
MaxGames == 3
\* most betting-line records over all teams of one betting_results
MaxLines == 2

-----------------------------------------------------------------------------
(* Records of the merge *)

\* identifiers a game record can carry; 0 is an integer id that Python treats as falsy
GameIds == {0, 1, 2}
Points == {60, 70}

\* a game record with an 'id' key, and one without (game.get('id') is None)
Games == [id : GameIds, homePoints : Points] \cup [homePoints : Points]

TeamNames == {"A", "B"}

LinesWithId ==
    [gameId : {1, 2}, provider : {"P", "Q"}, openDate : {"d1", "d2"},
     homeTeam : TeamNames, awayTeam : TeamNames]
LinesNoId ==
    [provider : {"P", "Q"}, openDate : {"d1", "d2"},
     homeTeam : TeamNames, awayTeam : TeamNames]
\* betting lines; a team does not play itself
Lines == {l \in LinesWithId \cup LinesNoId : l.homeTeam # l.awayTeam}

\* The items of a results dict built from a flat list of records cut at k:
\* team "A" holds flat[1..k], team "B" the rest; a team with no record has no
\* entry (_parallel_fetch stores truthy data only).
DictItems(flat, k) ==
    LET a == SubSeq(flat, 1, k)
        b == SubSeq(flat, k + 1, Len(flat))
        ia == IF a = <<>> THEN <<>> ELSE <<[team |-> "A", data |-> a]>>
        ib == IF b = <<>> THEN <<>> ELSE <<[team |-> "B", data |-> b]>>
    IN  ia \o ib

ResultDicts(Recs, max) ==
    UNION {{DictItems(flat, k) : k \in 0..n, flat \in [1..n -> Recs]} : n \in 0..max}

\* the records of a results dict in iteration order (.values(), then each list)
RECURSIVE Flatten(_)
Flatten(items) ==
    IF items = <<>> THEN <<>> ELSE Head(items).data \o Flatten(Tail(items))

-----------------------------------------------------------------------------
(* Games: lines 711-720 *)

HasId(game) == "id" \in DOMAIN game

\* `if game_id and game_id not in seen_game_ids`
GameIsNew(game, seen) ==
    /\ HasId(game)
    /\ game.id # 0
    /\ game.id \notin seen

RECURSIVE MergeTeamGames(_, _)
\* the inner loop over one team's games; acc = [seen, all]
MergeTeamGames(team_games, acc) ==
    IF team_games = <<>> THEN acc
    ELSE LET game == Head(team_games)
         IN  IF GameIsNew(game, acc.seen)
             THEN MergeTeamGames(Tail(team_games),
                      [seen |-> acc.seen \cup {game.id}, all |-> Append(acc.all, game)])
             ELSE MergeTeamGames(Tail(team_games), acc)

MergeGamesFirstTeam(items, acc) ==
    IF items = <<>> THEN acc ELSE MergeTeamGames(Head(items).data, acc)

RECURSIVE MergeGames(_, _)
\* the outer loop over games_results.values()
MergeGames(items, acc) ==
    IF items = <<>> THEN acc
    ELSE LET team_games == Head(items).data
         IN  IF team_games # <<>>
             THEN MergeGames(Tail(items), MergeTeamGames(team_games, acc))
             ELSE MergeGames(Tail(items), acc)

-----------------------------------------------------------------------------
(* Betting lines: lines 712, 726-735 *)

\* str() of a small non-negative integer
IntToStr(n) == <<"0", "1", "2", "3", "4", "5", "6", "7", "8", "9">>[n + 1]

\* line_id = (str(line.get('gameId', '')), str(line.get('provider', '')))
LineId(line) ==
    << IF "gameId" \in DOMAIN line THEN IntToStr(line.gameId) ELSE "",
       IF "provider" \in DOMAIN line THEN line.provider ELSE "" >>

LineIsNewAlways(line, seen) == TRUE

\* `if line_id not in seen_betting_line_ids`
LineIsNew(line, seen) == LineId(line) \notin seen

RECURSIVE MergeTeamLines(_, _)
MergeTeamLines(team_lines, acc) ==
    IF team_lines = <<>> THEN acc
    ELSE LET line == Head(team_lines)
         IN  IF LineIsNew(line, acc.seen)
             THEN MergeTeamLines(Tail(team_lines),
                      [seen |-> acc.seen \cup {LineId(line)}, all |-> Append(acc.all, line)])
             ELSE MergeTeamLines(Tail(team_lines), acc)

RECURSIVE MergeLines(_, _)
MergeLines(items, acc) ==
    IF items = <<>> THEN acc
    ELSE LET team_lines == Head(items).data
         IN  IF team_lines # <<>>
             THEN MergeLines(Tail(items), MergeTeamLines(team_lines, acc))
             ELSE MergeLines(Tail(items), acc)

EmptyAcc == [seen |-> {}, all |-> <<>>]

-----------------------------------------------------------------------------
(* The merge as a state machine: one per-team results dict in, one merged  *)
(* list out.                                                               *)

PoolIdle ==
    /\ teams = <<>>
    /\ fetch_type = "games"
    /\ outcome = <<>>
    /\ unit = <<>>
    /\ completed = 0
    /\ subSeq = <<>>
    /\ results = <<>>
    /\ ppc = "idle"

NoCall == [op |-> "none"]

ReqIdle ==
    /\ rq_pc = "idle"
    /\ rq_call = NoCall
    /\ rq_sent = <<>>
    /\ rq_ret = "none"
    /\ rq_saved = FALSE
    /\ rq_ops = 0
    /\ rq_progress = <<>>

RunIdle ==
    /\ pc = "idle"
    /\ exit = "none"
    /\ api_key = TRUE
    /\ max_teams = 0
    /\ api_teams = [all |-> <<>>, season |-> <<>>]
    /\ roster = <<>>
    /\ statusSeq = <<>>
    /\ files = {}
    /\ fetches = 0
    /\ stats_results = <<>>
    /\ ratings_results = <<>>
    /\ all_stats = <<>>
    /\ all_ratings = <<>>

TxIdle ==
    /\ tx_pc = "idle"
    /\ tx_log = <<>>
    /\ tx_ret = "none"

CacheIdle ==
    /\ cache = <<>>
    /\ disk = <<>>
    /\ cache_log = <<>>
    /\ acc_call = NoCall
    /\ acc_out = NoCall
    /\ acc_n = 0

SaveIdle ==
    /\ sv_pc = "idle"
    /\ sv_games = <<>>
    /\ sv_i = 0
    /\ sv_type = "none"
    /\ sv_data = <<>>
    /\ sv_files = <<>>

ProgIdle ==
    /\ pg_phase = 0
    /\ pg_pc = "idle"
    /\ pg_ops = 0
    /\ pg_sum = 0
    /\ pg_progress = 0
    /\ pg_worker = <<>>

InitMerge ==
    /\ PoolIdle
    /\ RunIdle
    /\ ReqIdle
    /\ TxIdle
    /\ SaveIdle
    /\ ProgIdle
    /\ CacheIdle
    /\ mpc = "input"
    /\ all_games = <<>>
    /\ all_betting_lines = <<>>
    /\ \/ /\ games_results \in ResultDicts(Games, MaxGames)
          /\ betting_results = <<>>
       \/ /\ games_results = <<>>
          /\ betting_results \in ResultDicts(Lines, MaxLines)

\* lines 707-720
CombineGames ==
    /\ mpc = "input"
    /\ all_games' = MergeGames(games_results, EmptyAcc).all
    /\ mpc' = "games_merged"
    /\ UNCHANGED <<games_results, betting_results, all_betting_lines>>

\* lines 709-735
CombineLines ==
    /\ mpc = "games_merged"
    /\ all_betting_lines' = MergeLines(betting_results, EmptyAcc).all
    /\ mpc' = "lines_merged"
    /\ UNCHANGED <<games_results, betting_results, all_games>>

MergeFrame == UNCHANGED <<poolVars, runVars, auxVars>>

MergeGamesStep == CombineGames /\ MergeFrame
MergeLinesStep == CombineLines /\ MergeFrame

NextMerge == MergeGamesStep \/ MergeLinesStep

SpecMerge == InitMerge /\ [][NextMerge]_vars

-----------------------------------------------------------------------------
(* _parallel_fetch: lines 586-638 *)

\* rosters of the pool specification: every roster up to SmallTeams teams with
\* every outcome, and one roster of LargeTeams teams, more than the worker cap
SmallTeams == 2
LargeTeams == 11

\* `min(10, len(teams))`, line 589
MaxWorkersCap == 10

FetchTypes == {"games", "stats", "betting_lines", "ratings"}

\* what the accessor called by a unit does: returns data, returns nothing, raises
Outcomes == {"data", "empty", "raise"}

Min(a, b) == IF a <= b THEN a ELSE b

\* a roster entry with a school name (the name is the roster position, so names
\* are distinct), and one without the 'school' key
NamedTeam(i) == [school |-> i]
UnnamedTeam == [conference |-> "c"]

HasSchool(team) == "school" \in DOMAIN team

\* what an accessor returns for a team it has data for
UnitData(kind, team_name) ==
    CASE kind = "games" -> <<[id |-> 1, homePoints |-> 70]>>
      [] kind = "stats" -> <<[team |-> team_name]>>
      [] kind = "betting_lines" ->
            <<[gameId |-> 1, provider |-> "P", openDate |-> "d1",
               homeTeam |-> "A", awayTeam |-> "B"]>>
      [] OTHER -> [adjusted |-> <<[team |-> team_name]>>, srs |-> <<>>]

\* what an accessor returns when the API has nothing for the team: an empty
\* list, and for get_team_ratings the record of two empty lists (lines 572-584)
EmptyData(kind) ==
    IF kind = "ratings" THEN [adjusted |-> <<>>, srs |-> <<>>] ELSE <<>>

\* Python truthiness of a list or dict
Truthy(data) == DOMAIN data # {}

\* fetch_team_data, lines 591-611: (team_name, data); None is the empty list
\* here, the caller only tests its truth value
FetchTeamData(team, kind, o) ==
    IF ~HasSchool(team)
    THEN [has_name |-> FALSE, team_name |-> 0, data |-> <<>>]
    ELSE IF kind \notin FetchTypes
    THEN [has_name |-> TRUE, team_name |-> team.school, data |-> <<>>]
    ELSE CASE o = "data" ->
                [has_name |-> TRUE, team_name |-> team.school,
                 data |-> UnitData(kind, team.school)]
           [] o = "empty" ->
                [has_name |-> TRUE, team_name |-> team.school, data |-> EmptyData(kind)]
           [] OTHER ->  \* the accessor raised: caught at line 609
                [has_name |-> TRUE, team_name |-> team.school, data |-> <<>>]

MaxWorkersUncapped(ts) == Len(ts)

\* line 589
MaxWorkers(ts) == Min(MaxWorkersCap, Len(ts))

Running == {i \in DOMAIN unit : unit[i] = "running"}
Pending == {i \in DOMAIN unit : unit[i] = "pending"}

ShouldStoreNamed(res) == res.has_name

\* `if team_name and data`, line 632
ShouldStore(res) == res.has_name /\ Truthy(res.data)

CountAfterSuccessOnly(n, res) == IF ShouldStore(res) THEN n + 1 ELSE n

\* `completed += 1`, line 623
CountAfter(n, res) == n + 1

\* `(completed / total) * 100`, line 624, as the fraction num/den
SubProgress(n, total) == [num |-> n * 100, den |-> total]

\* lines 613-620: every team's unit is submitted
Submit(ts, kind, outs) ==
    /\ teams' = ts
    /\ fetch_type' = kind
    /\ outcome' = outs
    /\ unit' = [i \in DOMAIN ts |-> "pending"]
    /\ completed' = 0
    /\ subSeq' = <<>>
    /\ results' = <<>>
    /\ ppc' = "pool"

\* a worker thread takes the next queued unit; the executor has max_workers threads
StartUnit(i) ==
    /\ ppc = "pool"
    /\ unit[i] = "pending"
    /\ \A j \in Pending : i <= j
    /\ Cardinality(Running) < MaxWorkers(teams)
    /\ unit' = [unit EXCEPT ![i] = "running"]
    /\ UNCHANGED <<teams, fetch_type, outcome, completed, subSeq, results, ppc>>

\* fetch_team_data returns and the future is set
FinishUnit(i) ==
    /\ ppc = "pool"
    /\ unit[i] = "running"
    /\ unit' = [unit EXCEPT ![i] = "done"]
    /\ UNCHANGED <<teams, fetch_type, outcome, completed, subSeq, results, ppc>>

\* one pass of the as_completed loop, lines 622-636
CountCompleted(i) ==
    /\ ppc = "pool"
    /\ unit[i] = "done"
    /\ LET res == FetchTeamData(teams[i], fetch_type, outcome[i])
           n == CountAfter(completed, res)
       IN  /\ completed' = n
           /\ subSeq' = Append(subSeq, SubProgress(n, Len(teams)))
           /\ results' = IF ShouldStore(res)
                         THEN (res.team_name :> res.data) @@ results
                         ELSE results
    /\ unit' = [unit EXCEPT ![i] = "counted"]
    /\ UNCHANGED <<teams, fetch_type, outcome, ppc>>

\* the loop ends, the with block is left: line 638
ReturnResults ==
    /\ ppc = "pool"
    /\ \A i \in DOMAIN unit : unit[i] = "counted"
    /\ ppc' = "returned"
    /\ UNCHANGED <<teams, fetch_type, outcome, unit, completed, subSeq, results>>

MergeIdle ==
    /\ games_results = <<>>
    /\ betting_results = <<>>
    /\ all_games = <<>>
    /\ all_betting_lines = <<>>
    /\ mpc = "input"

Rosters(n) == [1..n -> {UnnamedTeam}] \cup {[i \in 1..n |-> NamedTeam(i)]}
    \cup {[i \in 1..n |-> IF i = k THEN UnnamedTeam ELSE NamedTeam(i)] : k \in 1..n}

OutcomesFor(ts) ==
    {o \in [DOMAIN ts -> Outcomes \cup {"none"}] :
        \A i \in DOMAIN ts : (o[i] = "none") <=> ~HasSchool(ts[i])}

\* the large roster: the first team's accessor raises, the second has no data
LargeOutcome == [i \in 1..LargeTeams |->
                    IF i = 1 THEN "raise" ELSE IF i = 2 THEN "empty" ELSE "data"]

InitPool ==
    /\ MergeIdle
    /\ RunIdle
    /\ ReqIdle
    /\ TxIdle
    /\ SaveIdle
    /\ ProgIdle
    /\ CacheIdle
    /\ ppc = "pool"
    /\ completed = 0
    /\ subSeq = <<>>
    /\ results = <<>>
    /\ \/ /\ \E n \in 1..SmallTeams : teams \in Rosters(n)
          /\ fetch_type \in FetchTypes
          /\ outcome \in OutcomesFor(teams)
       \/ /\ teams = [i \in 1..LargeTeams |-> NamedTeam(i)]
          /\ fetch_type = "games"
          /\ outcome = LargeOutcome
    /\ unit = [i \in DOMAIN teams |-> "pending"]

PoolFrame == UNCHANGED <<mergeVars, runVars, auxVars>>

PoolStart == \E i \in DOMAIN unit : StartUnit(i) /\ PoolFrame
PoolFinish == \E i \in DOMAIN unit : FinishUnit(i) /\ PoolFrame
PoolCount == \E i \in DOMAIN unit : CountCompleted(i) /\ PoolFrame
PoolReturn == ReturnResults /\ PoolFrame

NextPool == PoolStart \/ PoolFinish \/ PoolCount \/ PoolReturn

SpecPool == InitPool /\ [][NextPool]_vars

-----------------------------------------------------------------------------
(* run_data_collection and collect_comprehensive_data: lines 640-774, 967-977 *)

\* largest roster the teams endpoint answers in the run specification
RunTeams == 2
\* largest max_teams the user enters
MaxTeamsLimit == 1

ApiRosters == {<<>>} \cup UNION {Rosters(n) : n \in 1..RunTeams}

\* get_teams, lines 414-435: the unfiltered answer, and the season's only when
\* the unfiltered one is empty (a failed request counts as empty)
GetTeams(api) == IF api.all # <<>> THEN api.all ELSE api.season

\* lines 659-664
LimitTeams(ts, max) == IF max > 0 THEN SubSeq(ts, 1, Min(max, Len(ts))) ELSE ts

\* the items of a dict in every insertion order the completion order can give
Items(res) == {[team |-> t, data |-> res[t]] : t \in DOMAIN res}
ItemOrders(res) ==
    {s \in [1..Cardinality(DOMAIN res) -> Items(res)] :
        \A i, j \in DOMAIN s : i # j => s[i] # s[j]}

\* the values of a dict in iteration order
RECURSIVE Values(_)
Values(items) ==
    IF items = <<>> THEN <<>> ELSE <<Head(items).data>> \o Values(Tail(items))

File(kind, name) == [kind |-> kind, name |-> name]

\* _save_games_by_team, lines 937-965: a JSON and a CSV file per team
RECURSIVE TeamFiles(_)
TeamFiles(items) ==
    IF items = <<>> THEN {}
    ELSE {File("team_json", Head(items).team), File("team_csv", Head(items).team)}
            \cup TeamFiles(Tail(items))

\* _save_data_with_progress, lines 776-846: nothing is written for no data
KindFiles(data, kind) ==
    IF data = <<>> THEN {} ELSE {File(kind \o "_json", 0), File(kind \o "_csv", 0)}

\* the files of the first k of the four saves of lines 742-745
SavedFiles(k) ==
    (IF k >= 1 THEN KindFiles(all_games, "games") ELSE {})
    \cup (IF k >= 2 THEN KindFiles(all_stats, "team_stats") ELSE {})
    \cup (IF k >= 3 THEN KindFiles(all_betting_lines, "betting_lines") ELSE {})
    \cup (IF k >= 4 THEN KindFiles(all_ratings, "ratings") ELSE {})

\* the except clause of lines 766-771
ErrorStatus == "Error occurred during data collection"

Init ==
    /\ PoolIdle
    /\ MergeIdle
    /\ ReqIdle
    /\ TxIdle
    /\ SaveIdle
    /\ ProgIdle
    /\ CacheIdle
    /\ pc = "start"
    /\ exit = "none"
    /\ api_key \in BOOLEAN
    /\ max_teams \in 0..MaxTeamsLimit
    /\ api_teams \in {a \in [all : ApiRosters, season : ApiRosters] :
                        a.all # <<>> => a.season = <<>>}
    /\ roster = <<>>
    /\ statusSeq = <<>>
    /\ files = {}
    /\ fetches = 0
    /\ stats_results = <<>>
    /\ ratings_results = <<>>
    /\ all_stats = <<>>
    /\ all_ratings = <<>>

\* run_data_collection builds the collector, lines 233-262 and 967-971: without
\* an API key the constructor raises and the run ends in the finally clause
Construct ==
    /\ pc = "start"
    /\ IF api_key
       THEN pc' = "collect" /\ exit' = exit
       ELSE pc' = "ended" /\ exit' = "no_key"
    /\ UNCHANGED <<api_key, max_teams, api_teams, roster, statusSeq, files, fetches,
                   stats_results, ratings_results, all_stats, all_ratings>>
    /\ UNCHANGED <<mergeVars, poolVars, auxVars>>

\* a phase starts: the status is set and _parallel_fetch submits the units
StartPhase(ts, kind, status) ==
    /\ statusSeq' = statusSeq \o status
    /\ fetches' = fetches + 1
    /\ \E outs \in OutcomesFor(ts) : Submit(ts, kind, outs)

\* the run ends in the except clause
Abort ==
    /\ statusSeq' = Append(statusSeq, ErrorStatus)
    /\ pc' = "ended"
    /\ exit' = "error"
    /\ ppc' = "idle"
    /\ UNCHANGED <<teams, fetch_type, outcome, unit, completed, subSeq, results, fetches>>

\* lines 644-678: the roster is fetched; with no team the run returns at line 656
FetchTeams ==
    /\ pc = "collect"
    /\ LET ts == GetTeams(api_teams)
       IN  IF ts = <<>>
           THEN /\ statusSeq' = Append(statusSeq, "Fetching teams list...")
                /\ pc' = "ended"
                /\ exit' = "no_teams"
                /\ UNCHANGED <<roster, fetches, poolVars>>
           ELSE /\ roster' = LimitTeams(ts, max_teams)
                /\ StartPhase(LimitTeams(ts, max_teams), "games",
                              <<"Fetching teams list...", "Processing teams...",
                                         "Fetching games data...">>)
                /\ pc' = "games"
                /\ exit' = exit
    /\ UNCHANGED <<api_key, max_teams, api_teams, files,
                   stats_results, ratings_results, all_stats, all_ratings>>
    /\ UNCHANGED <<mergeVars, auxVars>>

\* lines 678-686: the games fetch has returned, the per-team files are written
\* (a write may fail after k teams), the stats fetch starts
AfterGames ==
    /\ pc = "games"
    /\ ppc = "returned"
    /\ \E items \in ItemOrders(results), k \in 0..Cardinality(DOMAIN results), fail \in BOOLEAN :
          /\ fail \/ k = Len(items)
          /\ games_results' = items
          /\ files' = files \cup TeamFiles(SubSeq(items, 1, k))
          /\ IF fail
             THEN Abort
             ELSE /\ StartPhase(roster, "stats", <<"Fetching team statistics...">>)
                  /\ pc' = "stats"
                  /\ exit' = exit
    /\ UNCHANGED <<api_key, max_teams, api_teams, roster,
                   stats_results, ratings_results, all_stats, all_ratings>>
    /\ UNCHANGED <<betting_results, all_games, all_betting_lines, mpc, auxVars>>

\* lines 686-691
AfterStats ==
    /\ pc = "stats"
    /\ ppc = "returned"
    /\ stats_results' \in ItemOrders(results)
    /\ StartPhase(roster, "betting_lines", <<"Fetching betting lines...">>)
    /\ pc' = "lines"
    /\ UNCHANGED <<exit, api_key, max_teams, api_teams, roster, files,
                   ratings_results, all_stats, all_ratings>>
    /\ UNCHANGED <<mergeVars, auxVars>>

\* lines 691-696
AfterLines ==
    /\ pc = "lines"
    /\ ppc = "returned"
    /\ betting_results' \in ItemOrders(results)
    /\ StartPhase(roster, "ratings", <<"Fetching team ratings...">>)
    /\ pc' = "ratings"
    /\ UNCHANGED <<exit, api_key, max_teams, api_teams, roster, files,
                   stats_results, ratings_results, all_stats, all_ratings>>
    /\ UNCHANGED <<games_results, all_games, all_betting_lines, mpc, auxVars>>

\* lines 696-739: the ratings fetch has returned; the results are combined
\* and deduplicated
AfterRatings ==
    /\ pc = "ratings"
    /\ ppc = "returned"
    /\ \E items \in ItemOrders(results) :
          /\ ratings_results' = items
          /\ all_ratings' = Values(items)
    /\ all_games' = MergeGames(games_results, EmptyAcc).all
    /\ all_stats' = Flatten(stats_results)
    /\ all_betting_lines' = MergeLines(betting_results, EmptyAcc).all
    /\ mpc' = "lines_merged"
    /\ statusSeq' = Append(statusSeq, "Processing and saving data...")
    /\ pc' = "save"
    /\ ppc' = "idle"
    /\ UNCHANGED <<teams, fetch_type, outcome, unit, completed, subSeq, results>>
    /\ UNCHANGED <<exit, api_key, max_teams, api_teams, roster, files, fetches, stats_results>>
    /\ UNCHANGED <<games_results, betting_results, auxVars>>

\* lines 741-753: the four collections are saved (a write may fail after k of them)
SaveAll ==
    /\ pc = "save"
    /\ \E k \in 0..4, fail \in BOOLEAN :
          /\ fail \/ k = 4
          /\ files' = files \cup SavedFiles(k)
          /\ IF fail
             THEN /\ statusSeq' = Append(statusSeq, ErrorStatus)
                  /\ pc' = "ended"
                  /\ exit' = "error"
             ELSE /\ statusSeq' = Append(statusSeq, "Generating summary...")
                  /\ pc' = "summary"
                  /\ exit' = exit
    /\ UNCHANGED <<api_key, max_teams, api_teams, roster, fetches,
                   stats_results, ratings_results, all_stats, all_ratings>>
    /\ UNCHANGED <<mergeVars, poolVars, auxVars>>

SummarizeUncaught ==
    /\ pc = "summary"
    /\ \E ok \in BOOLEAN :
          IF ok
          THEN /\ files' = files \cup {File("summary_json", 0)}
               /\ statusSeq' = Append(statusSeq, "Data collection complete!")
               /\ exit' = "complete"
          ELSE /\ files' \in {files, files \cup {File("summary_json", 0)}}
               /\ statusSeq' = Append(statusSeq, ErrorStatus)
               /\ exit' = "error"
    /\ pc' = "ended"
    /\ UNCHANGED <<api_key, max_teams, api_teams, roster, fetches,
                   stats_results, ratings_results, all_stats, all_ratings>>
    /\ UNCHANGED <<mergeVars, poolVars, auxVars>>

\* lines 755-764 and _generate_summary_stats, lines 848-913: a failure of the
\* summary, before or after the summary file is opened, is caught there and
\* sets the warning status
Summarize ==
    /\ pc = "summary"
    /\ \E ok \in BOOLEAN :
          IF ok
          THEN /\ files' = files \cup {File("summary_json", 0)}
               /\ statusSeq' = Append(statusSeq, "Data collection complete!")
          ELSE /\ files' \in {files, files \cup {File("summary_json", 0)}}
               /\ statusSeq' = statusSeq \o <<"Warning: Error in summary generation",
                                              "Data collection complete!">>
    /\ pc' = "ended"
    /\ exit' = "complete"
    /\ UNCHANGED <<api_key, max_teams, api_teams, roster, fetches,
                   stats_results, ratings_results, all_stats, all_ratings>>
    /\ UNCHANGED <<mergeVars, poolVars, auxVars>>

Next ==
    \/ Construct
    \/ FetchTeams
    \/ PoolStart
    \/ PoolFinish
    \/ PoolCount
    \/ PoolReturn
    \/ AfterGames
    \/ AfterStats
    \/ AfterLines
    \/ AfterRatings
    \/ SaveAll
    \/ Summarize

Spec == Init /\ [][Next]_vars

-----------------------------------------------------------------------------
(* The end of a run: the saves and the summary, lines 741-764, from every   *)
(* state in which the four fetches have returned and been combined          *)

\* largest roster of the summary specification
SummaryTeams == 2

\* the results dict of a fetch over `ts` whose units are counted in roster
\* order: lines 622-636
RECURSIVE ResultItems(_, _, _)
ResultItems(ts, kind, outs) ==
    IF ts = <<>> THEN <<>>
    ELSE LET res == FetchTeamData(Head(ts), kind, Head(outs))
         IN  (IF ShouldStore(res)
              THEN <<[team |-> res.team_name, data |-> res.data]>> ELSE <<>>)
                 \o ResultItems(Tail(ts), kind, Tail(outs))

\* the statuses set up to line 700
CollectStatuses ==
    <<"Fetching teams list...", "Processing teams...", "Fetching games data...",
      "Fetching team statistics...", "Fetching betting lines...",
      "Fetching team ratings...", "Processing and saving data...">>

InitSummary ==
    /\ PoolIdle
    /\ ReqIdle
    /\ TxIdle
    /\ SaveIdle
    /\ ProgIdle
    /\ CacheIdle
    /\ pc = "save"
    /\ exit = "none"
    /\ api_key = TRUE
    /\ max_teams = 0
    /\ \E n \in 1..SummaryTeams : roster = [i \in 1..n |-> NamedTeam(i)]
    /\ api_teams = [all |-> roster, season |-> <<>>]
    /\ \E og, os, ol, ort \in [DOMAIN roster -> Outcomes] :
          /\ games_results = ResultItems(roster, "games", og)
          /\ stats_results = ResultItems(roster, "stats", os)
          /\ betting_results = ResultItems(roster, "betting_lines", ol)
          /\ ratings_results = ResultItems(roster, "ratings", ort)
    /\ all_games = MergeGames(games_results, EmptyAcc).all
    /\ all_stats = Flatten(stats_results)
    /\ all_betting_lines = MergeLines(betting_results, EmptyAcc).all
    /\ all_ratings = Values(ratings_results)
    /\ mpc = "lines_merged"
    /\ statusSeq = CollectStatuses
    /\ files = TeamFiles(games_results)
    /\ fetches = 4

NextSummary == SaveAll \/ Summarize

SpecSummary == InitSummary /\ [][NextSummary]_vars

-----------------------------------------------------------------------------
(* The request formatter and get_games: lines 278-378, 467-498 *)

\* Strings whose characters the code inspects are tuples of characters.
UpperAlpha == <<"A", "B", "C", "D", "E", "F", "G", "H", "I", "J", "K", "L", "M", "N", "O", "P", "Q", "R", "S", "T", "U", "V", "W", "X", "Y", "Z">>
LowerAlpha == <<"a", "b", "c", "d", "e", "f", "g", "h", "i", "j", "k", "l", "m", "n", "o", "p", "q", "r", "s", "t", "u", "v", "w", "x", "y", "z">>
Digits == <<"0", "1", "2", "3", "4", "5", "6", "7", "8", "9">>

\* str.lower() on one character
LowerChar(c) ==
    IF \E k \in DOMAIN UpperAlpha : UpperAlpha[k] = c
    THEN LowerAlpha[CHOOSE k \in DOMAIN UpperAlpha : UpperAlpha[k] = c]
    ELSE c

\* str.lower()
Lower(str) == [k \in DOMAIN str |-> LowerChar(str[k])]

\* valid_statuses, line 321
ValidStatuses == {<<"s", "c", "h", "e", "d", "u", "l", "e", "d">>,
                  <<"i", "n", "_", "p", "r", "o", "g", "r", "e", "s", "s">>,
                  <<"f", "i", "n", "a", "l">>,
                  <<"p", "o", "s", "t", "p", "o", "n", "e", "d">>,
                  <<"c", "a", "n", "c", "e", "l", "l", "e", "d">>}

RECURSIVE StripLeft(_)
StripLeft(str) ==
    IF str # <<>> /\ Head(str) = " " THEN StripLeft(Tail(str)) ELSE str

RECURSIVE StripRight(_)
StripRight(str) ==
    IF str # <<>> /\ str[Len(str)] = " "
    THEN StripRight(SubSeq(str, 1, Len(str) - 1)) ELSE str

RECURSIVE DropZeros(_)
DropZeros(str) ==
    IF Len(str) > 1 /\ Head(str) = "0" THEN DropZeros(Tail(str)) ELSE str

\* _format_season, lines 278-285: str(int(season)) for a string of digits (int
\* ignores surrounding blanks and leading zeros), the string itself otherwise
FormatSeason(season) ==
    LET body == StripRight(StripLeft(season))
    IN  IF body # <<>> /\ \A k \in DOMAIN body : \E d \in DOMAIN Digits : Digits[d] = body[k]
        THEN DropZeros(body)
        ELSE season

\* total_operations, line 256
TotalOperations == 100

\* _increment_progress, lines 298-303: the counter (in tenths) after one more
\* increment, and the progress value delivered, min(100, completed/total*100)
ProgressValue(ops) == Min(1000, (ops * 100) \div TotalOperations)

\* An argument that is None is left out of the record of a call.
HasArg(call, key) == key \in DOMAIN call

\* `status_val not in valid_statuses`, line 323
StatusIsValid(value) == Lower(value) \in ValidStatuses

\* lines 311-330: the formatted parameters, or a rejection
FormatParams(params) ==
    IF HasArg(params, "status") /\ ~StatusIsValid(params.status)
    THEN [ok |-> FALSE, params |-> <<>>]
    ELSE [ok |-> TRUE,
          params |-> [key \in DOMAIN params |->
                        CASE key = "season" -> FormatSeason(params[key])
                          [] key = "status" -> Lower(params[key])
                          [] OTHER -> params[key]]]

\* what session.get and the response give: data, an empty list, a 400, another
\* status that raise_for_status rejects, or an exception of session.get
Responses == {"data", "empty", "bad_request", "http_error", "exception"}

\* _make_request, lines 305-378: [sent, ret, ops]
MakeRequest(endpoint, params, response, ops) ==
    LET f == FormatParams(params)
    IN  IF ~f.ok
        THEN [sent |-> <<>>, ret |-> "none", incs |-> <<>>]
        ELSE [sent |-> <<[endpoint |-> endpoint, params |-> f.params]>>,
              ret |-> IF response = "data" THEN "data" ELSE "none",
              incs |-> CASE response = "exception" -> <<2>>
                         [] response \in {"bad_request", "http_error"} -> <<2, 3>>
                         [] OTHER -> <<2, 3, 5>>]

RECURSIVE Sum(_)
Sum(incs) == IF incs = <<>> THEN 0 ELSE Head(incs) + Sum(Tail(incs))

\* the progress values delivered for a sequence of increments
RECURSIVE Delivered(_, _)
Delivered(ops, incs) ==
    IF incs = <<>> THEN <<>>
    ELSE <<ProgressValue(ops + Head(incs))>> \o Delivered(ops + Head(incs), Tail(incs))

\* the params dict of a call: the arguments that are not None
ParamsOf(call, keys) == [key \in (DOMAIN call) \cap keys |-> call[key]]

\* the status values, seasons and teams of the calls
StatusInputs == {<<"f", "i", "n", "a", "l">>,
                 <<"F", "I", "N", "A", "L">>,
                 <<"F", "i", "n", "a", "l">>,
                 <<"d", "o", "n", "e">>,
                 <<"D", "O", "N", "E">>,
                 <<"S", "c", "h", "e", "d", "u", "l", "e", "d">>,
                 <<"I", "N", "_", "P", "R", "O", "G", "R", "E", "S", "S">>,
                 <<"p", "o", "s", "t", "p", "o", "n", "e", "d">>,
                 <<"C", "a", "n", "c", "e", "l", "l", "e", "d">>,
                 <<"f", "i", "n", "a", "l", "s">>,
                 <<>>}
SeasonInputs == {<<"2", "0", "2", "5">>, <<" ", "2", "0", "2", "5">>, <<"0", "2", "5">>, <<"a", "b", "c">>}
TeamInputs == {"Duke"}

\* the calls of `op`: a season, and a team and a status that may each be None
CallArgs(op) ==
    LET full == [op : {op}, season : SeasonInputs, team : TeamInputs, status : StatusInputs]
        drop(c, keys) == [key \in (DOMAIN c) \ keys |-> c[key]]
    IN  {drop(c, keys) : c \in full, keys \in SUBSET {"team", "status"}}

\* _make_request("games", params) with a status in the params
CallMakeRequest ==
    /\ rq_pc = "idle"
    /\ \E call \in CallArgs("make_request"), response \in Responses :
          LET r == MakeRequest("games", ParamsOf(call, {"season", "team", "status"}),
                               response, rq_ops)
          IN  /\ rq_call' = call
              /\ rq_sent' = rq_sent \o r.sent
              /\ rq_ret' = r.ret
              /\ rq_ops' = rq_ops + Sum(r.incs)
              /\ rq_progress' = rq_progress \o Delivered(rq_ops, r.incs)
    /\ rq_saved' = rq_saved
    /\ rq_pc' = "done"

\* get_games(season, team, status), lines 467-498; cache_hit: the cache holds
\* the season's games and some of them are the team's
CallGetGames ==
    /\ rq_pc = "idle"
    /\ \E call \in CallArgs("get_games"), response \in Responses, cache_hit \in BOOLEAN :
          /\ rq_call' = call
          /\ IF cache_hit /\ HasArg(call, "team")
             THEN /\ rq_sent' = rq_sent
                  /\ rq_ret' = "cached"
                  /\ rq_saved' = rq_saved
                  /\ UNCHANGED <<rq_ops, rq_progress>>
             ELSE LET params == ParamsOf(call, {"season", "team"})
                                    @@ [seasonType |-> <<"r">>]
                      r == MakeRequest("games", params, response, rq_ops)
                  IN  /\ rq_sent' = rq_sent \o r.sent
                      /\ rq_ret' = r.ret
                      /\ rq_saved' = (rq_saved \/ (r.ret = "data" /\ ~HasArg(call, "team")))
                      /\ rq_ops' = rq_ops + Sum(r.incs)
                      /\ rq_progress' = rq_progress \o Delivered(rq_ops, r.incs)
    /\ rq_pc' = "done"

InitRequest ==
    /\ PoolIdle
    /\ MergeIdle
    /\ RunIdle
    /\ ReqIdle
    /\ TxIdle
    /\ SaveIdle
    /\ ProgIdle
    /\ CacheIdle

ReqFrame == UNCHANGED <<mergeVars, poolVars, runVars, txVars, cacheVars, saveVars, progVars>>

RequestStep == CallMakeRequest /\ ReqFrame
GetGamesStep == CallGetGames /\ ReqFrame

NextRequest == RequestStep \/ GetGamesStep

SpecRequest == InitRequest /\ [][NextRequest]_vars

-----------------------------------------------------------------------------
(* The retrying transport: _create_session, lines 264-276, and the          *)
(* session.get of _make_request, lines 340-378                              *)

\* Retry(total=5): the number of retries after the first attempt, line 268
RetryTotal == 5

\* status_forcelist, line 270
StatusForcelist == {"429", "500", "502", "503", "504"}

\* What one attempt on the wire meets: a response with a status, or no
\* response at all (a connection or read error). "413" is a 413 that carries
\* a Retry-After header, which the Retry object honours by default.
AttemptOutcomes == {"200", "400", "404", "413", "error"} \cup StatusForcelist

IsRetryableAny(o) == o # "200"

\* Retry.is_retry and the error branches of Retry.increment for a GET: the
\* attempt is repeated while retries are left
IsRetryable(o) == o \in StatusForcelist \cup {"413", "error"}

\* the retries are exhausted when `total` would drop below zero
Exhausted(attempts) == attempts - 1 >= RetryTotal

\* lines 353-378: what _make_request returns for the final outcome of session.get
RequestResult(o) == IF o = "200" THEN "data" ELSE "none"

TxFrame == UNCHANGED <<mergeVars, poolVars, runVars, reqVars, cacheVars, saveVars, progVars>>

\* line 340: session.get is entered
BeginGet ==
    /\ tx_pc = "idle"
    /\ tx_pc' = "sending"
    /\ UNCHANGED <<tx_log, tx_ret>>
    /\ TxFrame

\* one attempt of the adapter: the request goes on the wire and meets `o`
Attempt(o) ==
    /\ tx_pc = "sending"
    /\ tx_log' = Append(tx_log, o)
    /\ IF IsRetryable(o) /\ ~Exhausted(Len(tx_log) + 1)
       THEN UNCHANGED <<tx_pc, tx_ret>>
       ELSE /\ tx_pc' = "done"
            /\ tx_ret' = RequestResult(o)
    /\ TxFrame

InitTransport ==
    /\ PoolIdle
    /\ MergeIdle
    /\ RunIdle
    /\ ReqIdle
    /\ CacheIdle
    /\ TxIdle
    /\ SaveIdle
    /\ ProgIdle

NextTransport == BeginGet \/ \E o \in AttemptOutcomes : Attempt(o)

SpecTransport == InitTransport /\ [][NextTransport]_vars

-----------------------------------------------------------------------------
(* The two-tier cache: _load_cached_data and _save_to_cache, lines 380-412  *)

\* most calls of _save_to_cache and _load_cached_data in one behaviour
MaxCacheOps == 3

CacheSeason == <<"2", "0", "2", "5">>

\* cache_key = f"{season}_{data_type}", lines 382 and 405
CacheKey(data_type, season) == <<season, data_type>>

\* json.dump that completes leaves the collection in the file; one that fails
\* after open(json_file, 'w') leaves a truncated file, which json.load rejects
FileOf(data) == [complete |-> TRUE, body |-> data]
PartialFile == [complete |-> FALSE, body |-> <<>>]

\* what a write can meet: it completes, open() fails, json.dump fails
WriteOutcomes == {"ok", "open_fails", "dump_fails"}

\* d[key] = value on a dict
Put(f, key, value) == [x \in (DOMAIN f) \cup {key} |-> IF x = key THEN value ELSE f[x]]

\* _load_cached_data, lines 380-401: the memory tier first, then the file; a
\* file that loads is stored in the memory tier; not found is None
LoadCachedData(c, d, key) ==
    IF key \in DOMAIN c
    THEN [found |-> TRUE, data |-> c[key], cache |-> c]
    ELSE IF key \in DOMAIN d /\ d[key].complete
    THEN [found |-> TRUE, data |-> d[key].body, cache |-> Put(c, key, d[key].body)]
    ELSE [found |-> FALSE, data |-> <<>>, cache |-> c]

SaveToCacheMerging(c, d, key, data, io) ==
    LET old == IF key \in DOMAIN c THEN c[key] ELSE <<>>
    IN  [cache |-> Put(c, key, old \o data),
         disk |-> Put(d, key, FileOf(old \o data)),
         raised |-> FALSE]

\* _save_to_cache, lines 403-412: the memory tier is set, then the file is
\* opened for writing and the collection dumped into it
SaveToCache(c, d, key, data, io) ==
    [cache |-> Put(c, key, data),
     disk |-> CASE io = "ok" -> Put(d, key, FileOf(data))
                [] io = "open_fails" -> d
                [] OTHER -> Put(d, key, PartialFile),
     raised |-> io # "ok"]

\* the keys and collections of the calls of the cache specification
CacheOpKeys == {CacheKey("games", CacheSeason), CacheKey("team_stats", CacheSeason)}
CacheOpData == {<<[id |-> 1]>>, <<[id |-> 2]>>}

\* the cache files a run finds in data_output: none, or one left by an earlier run
EarlierFiles(keys, contents) ==
    {<<>>} \cup {Put(<<>>, key, file) : key \in keys, file \in contents}

CacheFrame == UNCHANGED <<mergeVars, poolVars, runVars, reqVars, txVars, saveVars, progVars>>

SaveCall(key, data, io) ==
    /\ Len(cache_log) < MaxCacheOps
    /\ LET sv == SaveToCache(cache, disk, key, data, io)
       IN  /\ cache' = sv.cache
           /\ disk' = sv.disk
           /\ cache_log' = Append(cache_log,
                  [op |-> "save", key |-> key, data |-> data, ok |-> ~sv.raised])
    /\ UNCHANGED <<acc_call, acc_out, acc_n>>
    /\ CacheFrame

LoadCall(key) ==
    /\ Len(cache_log) < MaxCacheOps
    /\ LET ld == LoadCachedData(cache, disk, key)
       IN  /\ cache' = ld.cache
           /\ cache_log' = Append(cache_log,
                  [op |-> "load", key |-> key, data |-> ld.data, found |-> ld.found])
    /\ UNCHANGED <<disk, acc_call, acc_out, acc_n>>
    /\ CacheFrame

InitCacheOps ==
    /\ PoolIdle
    /\ MergeIdle
    /\ RunIdle
    /\ ReqIdle
    /\ TxIdle
    /\ SaveIdle
    /\ ProgIdle
    /\ cache = <<>>
    /\ disk \in EarlierFiles(CacheOpKeys, {FileOf(data) : data \in CacheOpData} \cup {PartialFile})
    /\ cache_log = <<>>
    /\ acc_call = NoCall
    /\ acc_out = NoCall
    /\ acc_n = 0

NextCacheOps ==
    \/ \E key \in CacheOpKeys, data \in CacheOpData, io \in WriteOutcomes :
          SaveCall(key, data, io)
    \/ \E key \in CacheOpKeys : LoadCall(key)

SpecCacheOps == InitCacheOps /\ [][NextCacheOps]_vars

-----------------------------------------------------------------------------
(* The accessors: lines 414-584, and their calls by fetch_team_data, 591-611 *)

\* most accessor calls in one behaviour
MaxCalls == 2

\* Python's None where a string can stand: no string of characters equals it
None == <<"None">>

AccTeam == <<"A">>
AccStatuses == {<<"f", "i", "n", "a", "l">>, <<"d", "o", "n", "e">>}

DataTypes == {"team_stats", "games", "betting_lines", "ratings"}

\* what the API holds for the season, in two versions: the first has records
\* of team A, the second has none
ApiRecords(data_type, v) ==
    CASE data_type \in {"games", "betting_lines"} ->
            IF v = 1
            THEN <<[id |-> 1, homeTeam |-> <<"A">>, awayTeam |-> <<"B">>],
                   [id |-> 2, homeTeam |-> <<"B">>, awayTeam |-> <<"C">>]>>
            ELSE <<[id |-> 2, homeTeam |-> <<"B">>, awayTeam |-> <<"C">>]>>
      [] data_type = "teams" -> <<[school |-> <<"A">>]>>
      [] OTHER ->
            IF v = 1 THEN <<[team |-> <<"A">>], [team |-> <<"B">>]>>
            ELSE <<[team |-> <<"B">>]>>

\* the filters of lines 443, 473, 534-535 and 562
Matches(data_type, rec, team) ==
    IF data_type \in {"games", "betting_lines"}
    THEN team \in {rec.homeTeam, rec.awayTeam}
    ELSE rec.team = team

Select(data_type, recs, team) ==
    LET test(rec) == Matches(data_type, rec, team) IN SelectSeq(recs, test)

\* _format_team_name, lines 287-296
FormatTeamName(team_name) == StripRight(StripLeft(team_name))

\* what the transport gives for one request: a kind of response and, for
\* data, the version of the API's records
ApiReplies == {r \in [response : Responses, v : {1, 2}] : r.response # "data" => r.v = 1}

\* `self._make_request(endpoint, params) or []`: the requests handed to
\* session.get and the list the accessor goes on with
Fetch(endpoint, params, reply, data_type, call) ==
    LET r == MakeRequest(endpoint, params, reply.response, 0)
        records == ApiRecords(data_type, reply.v)
    IN  [sent |-> r.sent,
         body |-> IF r.ret # "data" THEN <<>>
                  ELSE IF HasArg(call, "team") THEN Select(data_type, records, call.team)
                  ELSE records]

UseCacheNever(filtered) == FALSE

\* `if team_stats:`, lines 444, 474, 536, 563: the cache answers the call
UseCache(filtered) == filtered # <<>>

ShouldSaveAlways(team_given) == TRUE

\* `if not team:`, lines 460, 495, 549, 578
ShouldSave(team_given) == ~team_given

\* the records of the cached collection that are the team's; none without a
\* cached collection or without a team: lines 440-443
CachedFor(data_type, call, ld) ==
    IF ld.found /\ HasArg(call, "team") THEN Select(data_type, ld.data, call.team) ELSE <<>>

\* get_team_stats, get_games, get_betting_lines: lines 437-465, 467-498, 528-554
ListAccessor(data_type, endpoint, params, call, reply, io, c, d) ==
    LET key == CacheKey(data_type, call.season)
        ld == LoadCachedData(c, d, key)
        filtered == CachedFor(data_type, call, ld)
        f == Fetch(endpoint, params, reply, data_type, call)
        sv == SaveToCache(ld.cache, d, key, f.body, io)
    IN  IF UseCache(filtered)
        THEN [cache |-> ld.cache, disk |-> d, sent |-> <<>>, replies |-> <<>>,
              raised |-> FALSE, value |-> filtered, saved |-> FALSE]
        ELSE IF f.body # <<>> /\ ShouldSave(HasArg(call, "team"))
        THEN [cache |-> sv.cache, disk |-> sv.disk, sent |-> f.sent,
              replies |-> <<reply.response>>, raised |-> sv.raised,
              value |-> IF sv.raised THEN <<>> ELSE f.body, saved |-> TRUE]
        ELSE [cache |-> ld.cache, disk |-> d, sent |-> f.sent,
              replies |-> <<reply.response>>, raised |-> FALSE,
              value |-> f.body, saved |-> FALSE]

\* the one-element list get_team_ratings saves, lines 579-582
RatingsEntry(team, ratings_data) == <<[team |-> team, ratings |-> ratings_data]>>

\* get_team_ratings, lines 556-584
RatingsAccessor(call, reply1, reply2, io, c, d) ==
    LET key == CacheKey("ratings", call.season)
        ld == LoadCachedData(c, d, key)
        team_ratings == CachedFor("ratings", call, ld)
        params == ParamsOf(call, {"season", "team"})
        adj == Fetch("ratings/adjusted", params, reply1, "ratings", call)
        srs == Fetch("ratings/srs", params, reply2, "ratings", call)
        ratings_data == [adjusted |-> adj.body, srs |-> srs.body]
        sv == SaveToCache(ld.cache, d, key, RatingsEntry(None, ratings_data), io)
    IN  IF UseCache(team_ratings)
        THEN [cache |-> ld.cache, disk |-> d, sent |-> <<>>, replies |-> <<>>,
              raised |-> FALSE, value |-> team_ratings[1].ratings, saved |-> FALSE]
        ELSE IF ShouldSave(HasArg(call, "team"))
        THEN [cache |-> sv.cache, disk |-> sv.disk, sent |-> adj.sent \o srs.sent,
              replies |-> <<reply1.response, reply2.response>>, raised |-> sv.raised,
              value |-> ratings_data, saved |-> TRUE]
        ELSE [cache |-> ld.cache, disk |-> d, sent |-> adj.sent \o srs.sent,
              replies |-> <<reply1.response, reply2.response>>, raised |-> FALSE,
              value |-> ratings_data, saved |-> FALSE]

\* get_teams, lines 414-435: the unfiltered request, then the season's
TeamsAccessor(call, reply1, reply2, c, d) ==
    LET first == Fetch("teams", <<>>, reply1, "teams", call)
        second == Fetch("teams", ParamsOf(call, {"season"}), reply2, "teams", call)
    IN  IF first.body # <<>> \/ ~HasArg(call, "season")
        THEN [cache |-> c, disk |-> d, sent |-> first.sent, replies |-> <<reply1.response>>,
              raised |-> FALSE, value |-> first.body, saved |-> FALSE]
        ELSE [cache |-> c, disk |-> d, sent |-> first.sent \o second.sent,
              replies |-> <<reply1.response, reply2.response>>,
              raised |-> FALSE, value |-> second.body, saved |-> FALSE]

\* get_games_teams, lines 500-526
GamesTeamsAccessor(params, call, reply, c, d) ==
    LET f == Fetch("games/teams", params, reply, "games_teams", call)
    IN  [cache |-> c, disk |-> d, sent |-> f.sent, replies |-> <<reply.response>>,
         raised |-> FALSE, value |-> f.body, saved |-> FALSE]

\* the params dict of get_team_stats, lines 449-454
StatsParams(call) ==
    [key \in ((DOMAIN call) \cap {"season", "team"}) \cup {"seasonType"} |->
        CASE key = "team" -> FormatTeamName(call.team)
          [] key = "seasonType" -> <<"r">>
          [] OTHER -> call[key]]

\* a call of the accessor `op` from outside the pool: for the whole season, or
\* for one team
AccCalls(op) ==
    LET base == [op |-> op, season |-> CacheSeason, worker |-> FALSE]
    IN  {base, base @@ [team |-> AccTeam]}

\* fetch_team_data, lines 591-611: the call a worker makes for a fetch type; a
\* worker always passes the team's name, which is not empty (line 593)
WorkerCall(kind, team_name) ==
    [op |-> CASE kind = "stats" -> "get_team_stats"
              [] kind = "games" -> "get_games"
              [] kind = "betting_lines" -> "get_betting_lines"
              [] OTHER -> "get_team_ratings",
     season |-> CacheSeason, team |-> team_name, worker |-> TRUE]

\* a write happens only when a whole-season fetch has data to save
IoChoices(call, reply) ==
    IF HasArg(call, "team") \/ reply.response # "data" THEN {"ok"} ELSE WriteOutcomes

\* a behaviour calls one accessor, up to MaxCalls times
MayCall(op) == acc_n < MaxCalls /\ acc_call.op \in {"none", op}

\* the call returns (or raises): the tiers and the record of what it did
Called(call, r) ==
    /\ cache' = r.cache
    /\ disk' = r.disk
    /\ acc_call' = call
    /\ acc_out' = [sent |-> r.sent, replies |-> r.replies, raised |-> r.raised,
                   value |-> r.value, saved |-> r.saved]
    /\ acc_n' = acc_n + 1
    /\ UNCHANGED cache_log
    /\ CacheFrame

GetTeamStats ==
    /\ MayCall("get_team_stats")
    /\ \E call \in AccCalls("get_team_stats") \cup {WorkerCall("stats", AccTeam)},
          reply \in ApiReplies :
          \E io \in IoChoices(call, reply) :
              Called(call, ListAccessor("team_stats", "stats/team/season",
                                        StatsParams(call), call, reply, io, cache, disk))

\* get_games takes a status, "final" when the caller gives none
GetGames ==
    /\ MayCall("get_games")
    /\ \E call \in {c @@ [status |-> st] : c \in AccCalls("get_games"), st \in AccStatuses}
                   \cup {WorkerCall("games", AccTeam) @@ [status |-> <<"f", "i", "n", "a", "l">>]},
          reply \in ApiReplies :
          \E io \in IoChoices(call, reply) :
              Called(call, ListAccessor("games", "games",
                                        ParamsOf(call, {"season", "team"}) @@ [seasonType |-> <<"r">>],
                                        call, reply, io, cache, disk))

GetBettingLines ==
    /\ MayCall("get_betting_lines")
    /\ \E call \in AccCalls("get_betting_lines") \cup {WorkerCall("betting_lines", AccTeam)},
          reply \in ApiReplies :
          \E io \in IoChoices(call, reply) :
              Called(call, ListAccessor("betting_lines", "lines",
                                        ParamsOf(call, {"season", "team"}),
                                        call, reply, io, cache, disk))

GetTeamRatings ==
    /\ MayCall("get_team_ratings")
    /\ \E call \in AccCalls("get_team_ratings") \cup {WorkerCall("ratings", AccTeam)},
          reply1 \in ApiReplies,
          reply2 \in {r \in ApiReplies : r.response \in {"data", "exception"} /\ r.v = 1} :
          \E io \in IF HasArg(call, "team") THEN {"ok"} ELSE WriteOutcomes :
              Called(call, RatingsAccessor(call, reply1, reply2, io, cache, disk))

GetTeamsCall ==
    /\ MayCall("get_teams")
    /\ \E call \in {[op |-> "get_teams", worker |-> FALSE],
                    [op |-> "get_teams", worker |-> FALSE, season |-> CacheSeason]},
          reply1, reply2 \in {r \in ApiReplies : r.v = 1} :
          Called(call, TeamsAccessor(call, reply1, reply2, cache, disk))

GetGamesTeams ==
    /\ MayCall("get_games_teams")
    /\ \E call \in AccCalls("get_games_teams"), reply \in ApiReplies :
          Called(call, GamesTeamsAccessor(
                           ParamsOf(call, {"season", "team"}) @@ [seasonType |-> <<"r">>],
                           call, reply, cache, disk))

\* the cache files an earlier run can have left for a data type
CacheFilesOf(data_type) ==
    IF data_type = "ratings"
    THEN {FileOf(RatingsEntry(None, [adjusted |-> ApiRecords("ratings", 1), srs |-> <<>>])),
          PartialFile}
    ELSE {FileOf(ApiRecords(data_type, 1)), FileOf(ApiRecords(data_type, 2)), PartialFile}

InitAccessor ==
    /\ PoolIdle
    /\ MergeIdle
    /\ RunIdle
    /\ ReqIdle
    /\ TxIdle
    /\ SaveIdle
    /\ ProgIdle
    /\ cache = <<>>
    /\ disk \in UNION {EarlierFiles({CacheKey(t, CacheSeason)}, CacheFilesOf(t)) : t \in DataTypes}
    /\ cache_log = <<>>
    /\ acc_call = NoCall
    /\ acc_out = NoCall
    /\ acc_n = 0

NextAccessor ==
    \/ GetTeamStats
    \/ GetGames
    \/ GetBettingLines
    \/ GetTeamRatings
    \/ GetTeamsCall
    \/ GetGamesTeams

SpecAccessor == InitAccessor /\ [][NextAccessor]_vars

-----------------------------------------------------------------------------
(* The files of a run: flatten_data, the CSV headers and the file names of  *)
(* _save_data_with_progress, lines 776-846, and _save_games_by_team,        *)
(* lines 915-965                                                            *)

\* most keys of one mapping of the inputs
MaxItems == 2
\* most rows of a collection whose rows differ in their keys
MaxRows == 2
\* most teams of one games_results
SaveTeams == 2

\* JSON values as json.load gives them: None, a number n, a string of
\* characters s, a list or a dict of children c: the items of a dict in
\* insertion order, the elements of a list as items with the empty key
Item(k, v) == [k |-> k, v |-> v]
Null == [t |-> "null", n |-> 0, s |-> <<>>, c |-> <<>>]
Num(n) == [t |-> "int", n |-> n, s |-> <<>>, c |-> <<>>]
Str(chars) == [t |-> "str", n |-> 0, s |-> chars, c |-> <<>>]
List(elems) ==
    [t |-> "list", n |-> 0, s |-> <<>>, c |-> [i \in DOMAIN elems |-> Item(<<>>, elems[i])]]
Dict(items) == [t |-> "dict", n |-> 0, s |-> <<>>, c |-> items]

Keys(items) == {items[i].k : i \in DOMAIN items}
Range(seq) == {seq[i] : i \in DOMAIN seq}

\* d[key] = value on an insertion-ordered dict
DictSet(items, key, value) ==
    IF key \in Keys(items)
    THEN [i \in DOMAIN items |-> IF items[i].k = key THEN Item(key, value) ELSE items[i]]
    ELSE Append(items, Item(key, value))

\* dict.update(other)
RECURSIVE DictUpdate(_, _)
DictUpdate(items, other) ==
    IF other = <<>> THEN items
    ELSE DictUpdate(DictSet(items, Head(other).k, Head(other).v), Tail(other))

\* isinstance(elem, (int, float, str, bool)), lines 808 and 929
IsScalar(v) == v.t \in {"int", "str"}

\* str(elem) of a scalar
PyStr(v) == IF v.t = "str" THEN v.s ELSE <<IntToStr(v.n)>>

\* sep.join(parts)
RECURSIVE JoinWith(_, _)
JoinWith(sep, parts) ==
    IF parts = <<>> THEN <<>>
    ELSE IF Len(parts) = 1 THEN Head(parts)
    ELSE Head(parts) \o sep \o JoinWith(sep, Tail(parts))

\* json.dumps(v) with the default separators
RECURSIVE JsonDumps(_)
JsonDumps(v) ==
    CASE v.t = "null" -> <<"n", "u", "l", "l">>
      [] v.t = "int" -> <<IntToStr(v.n)>>
      [] v.t = "str" -> <<"\"">> \o v.s \o <<"\"">>
      [] v.t = "list" ->
            <<"[">> \o JoinWith(<<",", " ">>, [i \in DOMAIN v.c |-> JsonDumps(v.c[i].v)])
                \o <<"]">>
      [] OTHER ->
            <<"{">> \o JoinWith(<<",", " ">>,
                          [i \in DOMAIN v.c |->
                              <<"\"">> \o v.c[i].k \o <<"\"", ":", " ">>
                                  \o JsonDumps(v.c[i].v)])
                \o <<"}">>

NewKeyAlwaysJoined(parent_key, k) == parent_key \o <<"_">> \o k

\* `f"{parent_key}{sep}{k}" if parent_key else k`, lines 802 and 923
NewKey(parent_key, k) ==
    IF parent_key # <<>> THEN parent_key \o <<"_">> \o k ELSE k

\* the loop of flatten_data over the items of d, lines 801-813 (and 922-934)
RECURSIVE FlattenInto(_, _, _)
FlattenInto(items, d, parent_key) ==
    IF d = <<>> THEN items
    ELSE LET v == Head(d).v
             new_key == NewKey(parent_key, Head(d).k)
             next ==
                 CASE v.t = "null" -> DictSet(items, new_key, Str(<<>>))
                   [] v.t = "dict" ->
                         DictUpdate(items, FlattenInto(<<>>, v.c, new_key))
                   [] v.t = "list" ->
                         IF \A i \in DOMAIN v.c : IsScalar(v.c[i].v)
                         THEN DictSet(items, new_key,
                                  Str(JoinWith(<<",">>, [i \in DOMAIN v.c |-> PyStr(v.c[i].v)])))
                         ELSE DictSet(items, new_key, Str(JsonDumps(v)))
                   [] OTHER -> DictSet(items, new_key, v)
         IN  FlattenInto(next, Tail(d), parent_key)

\* flatten_data(d), lines 799-814 and 920-935 (the two copies are the same)
FlattenData(d) == FlattenInto(<<>>, d, <<>>)

\* lines 817 and 946
FlattenAll(data) == [k \in DOMAIN data |-> FlattenData(data[k])]

\* lines 820-822 and 947-949
HeaderSet(flattened) == UNION {Keys(flattened[k]) : k \in DOMAIN flattened}

\* the order of str in Python: by code point, here for digits, letters and '_'
CodeOrder == Digits \o UpperAlpha \o <<"_">> \o LowerAlpha
Ord(c) == CHOOSE i \in DOMAIN CodeOrder : CodeOrder[i] = c

RECURSIVE StrLess(_, _)
StrLess(a, b) ==
    IF b = <<>> THEN FALSE
    ELSE IF a = <<>> THEN TRUE
    ELSE IF Head(a) = Head(b) THEN StrLess(Tail(a), Tail(b))
    ELSE Ord(Head(a)) < Ord(Head(b))

\* sorted(list(S)) of a set of strings
RECURSIVE Sorted(_)
Sorted(S) ==
    IF S = {} THEN <<>>
    ELSE LET m == CHOOSE x \in S : \A y \in S \ {x} : StrLess(x, y)
         IN  <<m>> \o Sorted(S \ {m})

\* priority_headers, line 825
PriorityHeaders == << <<"t", "e", "a", "m">>, <<"s", "e", "a", "s", "o", "n">>,
                      <<"c", "o", "n", "f", "e", "r", "e", "n", "c", "e">> >>

\* csv_headers of _save_data_with_progress, lines 825-827
CsvHeaders(header_set) ==
    LET present(h) == h \in header_set
    IN  SelectSeq(PriorityHeaders, present) \o Sorted(header_set \ Range(PriorityHeaders))

\* csv_headers of _save_games_by_team, line 950
GamesCsvHeaders(header_set) == Sorted(header_set)

\* lines 830-833 and 953-956: every row gets every header
RECURSIVE Pad(_, _, _)
Pad(items, headers, fill) ==
    IF headers = <<>> THEN items
    ELSE Pad(IF Head(headers) \in Keys(items) THEN items
             ELSE Append(items, Item(Head(headers), fill)),
             Tail(headers), fill)

\* str.isalnum() on one character of the names
IsAlnum(c) == c \in Range(UpperAlpha) \cup Range(LowerAlpha) \cup Range(Digits)

\* safe_team, line 939
SafeTeam(team) ==
    LET kept(c) == IsAlnum(c) \/ c \in {" ", "_", "-"}
        stripped == StripRight(SelectSeq(team, kept))
    IN  [k \in DOMAIN stripped |-> IF stripped[k] = " " THEN "_" ELSE stripped[k]]

\* a file under self.output_dir: the folders below it, and the file name
Path(dir, name) == [dir |-> dir, name |-> name]

JsonExt == <<".", "j", "s", "o", "n">>
CsvExt == <<".", "c", "s", "v">>

\* the characters of a data_type
TypeChars(data_type) ==
    CASE data_type = "games" -> <<"g", "a", "m", "e", "s">>
      [] data_type = "team_stats" -> <<"t", "e", "a", "m", "_", "s", "t", "a", "t", "s">>
      [] data_type = "betting_lines" ->
            <<"b", "e", "t", "t", "i", "n", "g", "_", "l", "i", "n", "e", "s">>
      [] data_type = "ratings" -> <<"r", "a", "t", "i", "n", "g", "s">>
      [] OTHER -> <<"s", "u", "m", "m", "a", "r", "y">>

\* lines 783-786 and 839: data_output/<season>/<data_type>.json and .csv
KindPath(season, data_type, ext) == Path(<<season>>, TypeChars(data_type) \o ext)

\* lines 917, 942 and 960: data_output/<season>/teams/<safe_team>.json and .csv
TeamPath(season, team, ext) ==
    Path(<<season, <<"t", "e", "a", "m", "s">> >>, SafeTeam(team) \o ext)

\* line 894: data_output/<season>_summary.json
SummaryPath(season) == Path(<<>>, season \o <<"_">> \o TypeChars("summary") \o JsonExt)

JsonFile(data) == [json |-> data]
CsvFile(headers, rows) == [headers |-> headers, rows |-> rows]

SaveFrame == UNCHANGED <<mergeVars, poolVars, runVars, reqVars, txVars, cacheVars, progVars>>

\* one pass of the loop of _save_games_by_team, lines 937-964
SaveGamesOfTeam ==
    /\ sv_pc = "teams"
    /\ sv_i < Len(sv_games)
    /\ LET team == sv_games[sv_i + 1].team
           games == sv_games[sv_i + 1].data
           flattened_games == FlattenAll(games)
           csv_headers == GamesCsvHeaders(HeaderSet(flattened_games))
           rows == [k \in DOMAIN flattened_games |->
                       Pad(flattened_games[k], csv_headers, Str(<<>>))]
       IN  sv_files' = Put(Put(sv_files, TeamPath(CacheSeason, team, JsonExt), JsonFile(games)),
                           TeamPath(CacheSeason, team, CsvExt), CsvFile(csv_headers, rows))
    /\ sv_i' = sv_i + 1
    /\ UNCHANGED <<sv_pc, sv_games, sv_type, sv_data>>
    /\ SaveFrame

\* _save_data_with_progress, lines 776-846, called after _save_games_by_team
SaveDataWithProgress ==
    /\ sv_pc = "teams"
    /\ sv_i = Len(sv_games)
    /\ IF sv_data = <<>>
       THEN sv_files' = sv_files
       ELSE LET flattened_data == FlattenAll(sv_data)
                csv_headers == CsvHeaders(HeaderSet(flattened_data))
                rows == [k \in DOMAIN flattened_data |->
                            Pad(flattened_data[k], csv_headers, Null)]
            IN  sv_files' = Put(Put(sv_files, KindPath(CacheSeason, sv_type, JsonExt),
                                    JsonFile(sv_data)),
                                KindPath(CacheSeason, sv_type, CsvExt),
                                CsvFile(csv_headers, rows))
    /\ sv_pc' = "saved"
    /\ UNCHANGED <<sv_games, sv_i, sv_type, sv_data>>
    /\ SaveFrame

\* the inputs: mappings of up to MaxItems keys over nested values
LeafValues ==
    {Null, Num(1), Str(<<"x">>), List(<<Num(1), Str(<<"x">>)>>), List(<<Null>>),
     List(<<Dict(<<Item(<<"b">>, Num(1))>>)>>)}

NestedValues ==
    {Dict(<<Item(<<"b">>, v)>>) : v \in LeafValues \cup {Dict(<<Item(<<"a">>, Num(2))>>)}}

SaveItems ==
    {Item(k, v) : k \in {<<"a">>, <<"a", "_", "b">>, <<"i", "d">>},
                  v \in LeafValues \cup NestedValues}

DistinctKeys(items) == \A i, j \in DOMAIN items : i # j => items[i].k # items[j].k

SaveRecords ==
    UNION {{d \in [1..n -> SaveItems] : DistinctKeys(d)} : n \in 1..MaxItems}

\* rows that differ in their keys
HeaderRows ==
    {<<Item(<<"t", "e", "a", "m">>, Str(<<"A">>)), Item(<<"i", "d">>, Num(1))>>,
     <<Item(<<"i", "d">>, Num(2)), Item(<<"s", "e", "a", "s", "o", "n">>, Num(1))>>,
     <<Item(<<"c", "o", "n", "f", "e", "r", "e", "n", "c", "e">>, Str(<<"x">>)),
       Item(<<"a">>, Dict(<<Item(<<"b">>, Num(1))>>))>>,
     <<Item(<<"Z">>, Num(1)), Item(<<"a">>, Null)>>}

HeaderData == UNION {[1..n -> HeaderRows] : n \in 1..MaxRows}

SaveTeamNames == {<<"A">>, <<"A", "&">>, <<"A", " ", "B">>, <<"A", "_", "B">>, <<"B", "-", "1">>}

GamesInputs ==
    UNION {{g \in [1..n -> [team : SaveTeamNames, data : {s \in HeaderData : Len(s) = 1}]] :
               \A i, j \in DOMAIN g : i # j => g[i].team # g[j].team} : n \in 0..SaveTeams}

InitSave ==
    /\ PoolIdle
    /\ MergeIdle
    /\ RunIdle
    /\ ReqIdle
    /\ TxIdle
    /\ CacheIdle
    /\ ProgIdle
    /\ sv_pc = "teams"
    /\ sv_i = 0
    /\ sv_files = <<>>
    /\ \/ /\ sv_games \in GamesInputs
          /\ sv_type = "games"
          /\ sv_data \in {s \in HeaderData : Len(s) = 1}
       \/ /\ sv_games = <<>>
          /\ sv_type \in {"games", "team_stats", "betting_lines", "ratings"}
          /\ sv_data \in {<<>>} \cup HeaderData
       \/ /\ sv_games = <<>>
          /\ sv_type = "games"
          /\ sv_data \in {<<d>> : d \in SaveRecords}

NextSave == SaveGamesOfTeam \/ SaveDataWithProgress

SpecSave == InitSave /\ [][NextSave]_vars

-----------------------------------------------------------------------------
(* The main progress of a run: the milestones of collect_comprehensive_data, *)
(* lines 673-697, and the _increment_progress calls of the worker threads'   *)
(* requests, lines 298-303, 336, 350 and 365                                 *)

\* largest roster of the progress specification; every worker makes one request
PgTeams == 2

\* the increments of one request, in tenths: 0.2 before session.get, 0.3 after
\* the response, 0.5 after the JSON is parsed
Increments == <<2, 3, 5>>

\* completed_operations after get_teams, which made one request that gave the
\* roster, or one that gave an empty list and a second one that gave the roster
OpsAfterGetTeams == {10, 20}

IdleWorker == [pc |-> "idle", k |-> 0, reg |-> 0]

ProgFrame == UNCHANGED <<mergeVars, poolVars, runVars, reqVars, txVars, cacheVars, saveVars>>

\* _parallel_fetch submits the units: a worker thread per team (lines 613-617)
BeginFetch ==
    /\ pg_pc = "start"
    /\ pg_pc' = "fetch"
    /\ pg_worker' = [i \in DOMAIN pg_worker |-> [pc |-> "load", k |-> 1, reg |-> 0]]
    /\ UNCHANGED <<pg_phase, pg_ops, pg_sum, pg_progress>>
    /\ ProgFrame

\* `self.completed_operations += increment`, line 301: the read of the attribute
LoadOps(i) ==
    /\ pg_worker[i].pc = "load"
    /\ pg_worker' = [pg_worker EXCEPT ![i].pc = "store", ![i].reg = pg_ops]
    /\ UNCHANGED <<pg_phase, pg_pc, pg_ops, pg_sum, pg_progress>>
    /\ ProgFrame

\* line 301: the sum is stored back
StoreOps(i) ==
    /\ pg_worker[i].pc = "store"
    /\ pg_ops' = pg_worker[i].reg + Increments[pg_worker[i].k]
    /\ pg_sum' = pg_sum + Increments[pg_worker[i].k]
    /\ pg_worker' = [pg_worker EXCEPT ![i].pc = "report"]
    /\ UNCHANGED <<pg_phase, pg_pc, pg_progress>>
    /\ ProgFrame

\* lines 302-303: the progress is computed from the attribute and delivered;
\* the request then goes on to its next increment, or ends (an exception in
\* session.get after the first, a status other than 200 after the second)
ReportProgress(i) ==
    /\ pg_worker[i].pc = "report"
    /\ pg_progress' = ProgressValue(pg_ops)
    /\ \E more \in BOOLEAN :
          /\ more => pg_worker[i].k < Len(Increments)
          /\ pg_worker' = IF more
                          THEN [pg_worker EXCEPT ![i].pc = "load", ![i].k = @ + 1]
                          ELSE [pg_worker EXCEPT ![i].pc = "done"]
    /\ UNCHANGED <<pg_phase, pg_pc, pg_ops, pg_sum>>
    /\ ProgFrame

\* _parallel_fetch has returned: `update(progress=25)`, 50, 75, 100 at lines
\* 676, 684, 689 and 694
EndFetch ==
    /\ pg_pc = "fetch"
    /\ \A i \in DOMAIN pg_worker : pg_worker[i].pc = "done"
    /\ pg_progress' = 250 * pg_phase
    /\ pg_phase' = pg_phase + 1
    /\ pg_pc' = IF pg_phase < 4 THEN "start" ELSE "over"
    /\ UNCHANGED <<pg_ops, pg_sum, pg_worker>>
    /\ ProgFrame

\* after `update(..., progress=0)` of line 670
InitProgress ==
    /\ PoolIdle
    /\ MergeIdle
    /\ RunIdle
    /\ ReqIdle
    /\ TxIdle
    /\ CacheIdle
    /\ SaveIdle
    /\ pg_phase = 1
    /\ pg_pc = "start"
    /\ pg_ops \in OpsAfterGetTeams
    /\ pg_sum = pg_ops
    /\ pg_progress = 0
    /\ \E n \in 1..PgTeams : pg_worker = [i \in 1..n |-> IdleWorker]

NextProgress ==
    \/ BeginFetch
    \/ \E i \in DOMAIN pg_worker : LoadOps(i)
    \/ \E i \in DOMAIN pg_worker : StoreOps(i)
    \/ \E i \in DOMAIN pg_worker : ReportProgress(i)
    \/ EndFetch

SpecProgress == InitProgress /\ [][NextProgress]_vars

-----------------------------------------------------------------------------
(* The files of a run as the dashboard reads them: load_data of src/gui.py, *)
(* lines 106-131                                                            *)

\* where the run writes a file of `files`: lines 783-786, 839, 894, 917-960
PathOf(f) ==
    CASE f.kind = "summary_json" -> SummaryPath(CacheSeason)
      [] f.kind = "team_json" -> TeamPath(CacheSeason, <<IntToStr(f.name)>>, JsonExt)
      [] f.kind = "team_csv" -> TeamPath(CacheSeason, <<IntToStr(f.name)>>, CsvExt)
      [] OTHER ->
            LET data_type == CHOOSE t \in DataTypes : f.kind \in {t \o "_json", t \o "_csv"}
            IN  KindPath(CacheSeason, data_type,
                         IF f.kind = data_type \o "_json" THEN JsonExt ELSE CsvExt)

\* file.endswith('.json'), gui.py line 113
EndsWith(name, ext) ==
    Len(name) >= Len(ext) /\ SubSeq(name, Len(name) - Len(ext) + 1, Len(name)) = ext

\* file.split('_')[0], gui.py line 114
RECURSIVE BeforeUnderscore(_)
BeforeUnderscore(name) ==
    IF name = <<>> \/ Head(name) = "_" THEN <<>>
    ELSE <<Head(name)>> \o BeforeUnderscore(Tail(name))

\* load_data, gui.py lines 106-131: the data types it finds among `paths`
LoadData(paths) ==
    LET listed == {p.name : p \in {q \in paths : q.dir = <<>>}}
        seasons == {BeforeUnderscore(n) : n \in {m \in listed : EndsWith(m, JsonExt)}}
        latest_season == CHOOSE s \in seasons : \A t \in seasons \ {s} : StrLess(t, s)
    IN  IF seasons = {} THEN {}
        ELSE {data_type \in DataTypes \cup {"summary"} :
                 Path(<<>>, latest_season \o <<"_">> \o TypeChars(data_type) \o JsonExt)
                    \in paths}

-----------------------------------------------------------------------------
(* Properties of the merge *)

FlatGames == Flatten(games_results)
FlatLines == Flatten(betting_results)

GameAt(list, k, id) == HasId(list[k]) /\ list[k].id = id

\* the first record of `flat` that carries game identifier `id`
FirstGameWithId(flat, id) ==
    flat[CHOOSE k \in DOMAIN flat :
            GameAt(flat, k, id) /\ \A j \in 1..(k - 1) : ~GameAt(flat, j, id)]

\* the raw value of the game id of a line (absent when the key is missing)
GameIdField(line) ==
    IF "gameId" \in DOMAIN line
    THEN [present |-> TRUE, value |-> line.gameId]
    ELSE [present |-> FALSE, value |-> 0]

\* the composite key (gameId, openDate, homeTeam, awayTeam, provider)
CompositeKey(line) ==
    <<GameIdField(line), line.openDate, line.homeTeam, line.awayTeam, line.provider>>

FirstLineWithKey(flat, key) ==
    flat[CHOOSE k \in DOMAIN flat :
            CompositeKey(flat[k]) = key
            /\ \A j \in 1..(k - 1) : CompositeKey(flat[j]) # key]

\* C1: the merged games list holds exactly one record for every game
\* identifier that occurs in any per-team result, that record being the first
\* one seen, and holds no other records.
C1_OneRecordPerGameId ==
    mpc # "input" =>
        /\ \A id \in {FlatGames[k].id : k \in {j \in DOMAIN FlatGames : HasId(FlatGames[j])}} :
              LET pos == {k \in DOMAIN all_games : GameAt(all_games, k, id)}
              IN  /\ Cardinality(pos) = 1
                  /\ \A k \in pos : all_games[k] = FirstGameWithId(FlatGames, id)
        /\ \A k \in DOMAIN all_games :
              /\ HasId(all_games[k])
              /\ \E j \in DOMAIN FlatGames : FlatGames[j] = all_games[k]

\* C2: no two records of the merged betting-lines list have the same
\* composite key (gameId, openDate, homeTeam, awayTeam, provider).
C2_NoTwoLinesShareCompositeKey ==
    \A i, j \in DOMAIN all_betting_lines :
        i # j => CompositeKey(all_betting_lines[i]) # CompositeKey(all_betting_lines[j])

\* two input lines with one composite key were merged, and one of them was kept
C2_Witness ==
    /\ mpc = "lines_merged"
    /\ \E i, j \in DOMAIN FlatLines :
          i < j /\ CompositeKey(FlatLines[i]) = CompositeKey(FlatLines[j])
    /\ Len(all_betting_lines) = 1

\* C3: every composite key that occurs in any per-team result is represented
\* in the merged betting-lines list exactly once, by its first-seen record.
C3_EveryCompositeKeyKept ==
    mpc = "lines_merged" =>
        \A key \in {CompositeKey(FlatLines[k]) : k \in DOMAIN FlatLines} :
            LET pos == {k \in DOMAIN all_betting_lines :
                            CompositeKey(all_betting_lines[k]) = key}
            IN  /\ Cardinality(pos) = 1
                /\ \A k \in pos : all_betting_lines[k] = FirstLineWithKey(FlatLines, key)

-----------------------------------------------------------------------------
(* Properties of _parallel_fetch *)

Counted == {i \in DOMAIN unit : unit[i] = "counted"}

C5_ConcurrencyCeiling ==
    Cardinality(Running) <= Min(10, Len(teams))

\* ten units of a roster of more than ten teams run while another one waits
C5_Witness ==
    /\ Len(teams) > 10
    /\ Cardinality(Running) = 10
    /\ Pending # {}

\* C6: the sub-progress values delivered are (k/total)*100 for k = 1, 2, ...,
\* one after each completed unit, strictly increasing, up to k = total when the
\* fetch returns, whatever the completion order and the units' outcomes.
C6_SubProgressSequence ==
    /\ Len(subSeq) = Cardinality(Counted)
    /\ \A k \in DOMAIN subSeq : subSeq[k] = [num |-> k * 100, den |-> Len(teams)]
    /\ \A j, k \in DOMAIN subSeq :
          j < k => subSeq[j].num * subSeq[k].den < subSeq[k].num * subSeq[j].den
    /\ ppc = "returned" => Len(subSeq) = Len(teams)

\* the second team's unit failed and was counted before the first team's
C6_Witness ==
    /\ Len(teams) >= 2
    /\ unit[2] = "counted"
    /\ unit[1] \in {"running", "done"}
    /\ outcome[2] = "raise"
    /\ subSeq = <<[num |-> 100, den |-> Len(teams)]>>

-----------------------------------------------------------------------------
(* Properties of the collection run *)

Last(seq) == seq[Len(seq)]

\* the statuses that state the success or the failure of a run
TerminalStatuses == {"Data collection complete!", ErrorStatus}

\* C7: on every run started by run_data_collection the last status delivered
\* to the progress window before the run ends is a terminal one, which states
\* success or failure.
C7_LastStatusIsTerminal ==
    pc = "ended" => (statusSeq # <<>> /\ Last(statusSeq) \in TerminalStatuses)

\* C8: when the roster endpoint yields zero teams, the run ends without
\* starting a parallel fetch, without writing a data file, and with a fatal
\* status reported to the progress window.
C8_ZeroTeamsIsFatal ==
    (pc = "ended" /\ api_key /\ GetTeams(api_teams) = <<>>) =>
        /\ fetches = 0
        /\ files = {}
        /\ \E k \in DOMAIN statusSeq : statusSeq[k] = ErrorStatus

\* C9: after a run, the aggregated team stats hold exactly one row for every
\* team of the analyzed roster (the row of the API, or the fallback skeleton
\* when the API has none for the team).
C9_OneStatsRowPerTeam ==
    exit = "complete" =>
        \A i \in DOMAIN roster :
            HasSchool(roster[i]) =>
                Cardinality({k \in DOMAIN all_stats :
                                all_stats[k].team = roster[i].school}) = 1

-----------------------------------------------------------------------------
(* Properties of the request formatter *)

\* C10: a status that equals, ignoring case, one of the five valid values is
\* sent in lower case; for any other value the call is aborted and no request
\* is made; this for a status in the params of _make_request and for the
\* status argument of get_games.
C10_StatusValidatedBeforeDispatch ==
    (rq_pc = "done" /\ HasArg(rq_call, "status")) =>
        IF Lower(rq_call.status) \in ValidStatuses
        THEN \A k \in DOMAIN rq_sent :
                /\ HasArg(rq_sent[k].params, "status")
                /\ rq_sent[k].params.status = Lower(rq_call.status)
        ELSE rq_sent = <<>> /\ rq_ret = "none"

-----------------------------------------------------------------------------
(* Properties of the transport *)

\* the attempts of a request that were followed by another attempt
Resent == {tx_log[k] : k \in 1..(Len(tx_log) - 1)}

\* C11 (as stated): the transport re-sends a request only after a response
\* with status 429, 500, 502, 503 or 504, the total number of attempts never
\* exceeds 5, and a 400 is never followed by another attempt and ends the
\* request as a failure.
C11_AtMostFiveAttempts ==
    /\ Resent \subseteq StatusForcelist
    /\ Len(tx_log) <= 5
    /\ (tx_log # <<>> /\ Last(tx_log) = "400") => (tx_pc = "done" /\ tx_ret = "none")

\* C11 (amended): the transport re-sends a request only after a response with
\* status 429, 500, 502, 503 or 504, a 413 with Retry-After, or a connection
\* or read error; it makes at most 5 retries, so at most 6 attempts; a 400 is
\* never followed by another attempt and ends the request as a failure.
C11_AtMostFiveRetries ==
    /\ Resent \subseteq StatusForcelist \cup {"413", "error"}
    /\ Len(tx_log) <= 1 + RetryTotal
    /\ (tx_log # <<>> /\ Last(tx_log) = "400") => (tx_pc = "done" /\ tx_ret = "none")

\* all retries were used on 503 responses and the last attempt met a 400
C11_Witness ==
    /\ tx_pc = "done"
    /\ Len(tx_log) = 6
    /\ \A k \in 1..5 : tx_log[k] = "503"
    /\ tx_log[6] = "400"
    /\ tx_ret = "none"

-----------------------------------------------------------------------------
(* Properties of the accessors *)

\* a request of the last call failed: a 400, another status that is not 200,
\* an exception of the transport (which covers exhausted retries)
FailedReplies == {"bad_request", "http_error", "exception"}

RequestFailed ==
    /\ acc_out.replies # <<>>
    /\ \A k \in DOMAIN acc_out.replies : acc_out.replies[k] \in FailedReplies

InvalidStatus == HasArg(acc_call, "status") /\ Lower(acc_call.status) \notin ValidStatuses

\* the empty value of the accessor: the empty list, and for get_team_ratings
\* the record of two empty lists
ReturnedEmpty ==
    IF acc_call.op = "get_team_ratings"
    THEN acc_out.value = [adjusted |-> <<>>, srs |-> <<>>]
    ELSE acc_out.value = <<>>

\* C12: every accessor returns an empty collection and raises nothing
\* whenever its request fails: retries exhausted, a 400, another non-200
\* status, a network exception, or an invalid status value.
C12_FailureGivesEmpty ==
    (acc_call.op # "none" /\ (RequestFailed \/ InvalidStatus)) =>
        (~acc_out.raised /\ ReturnedEmpty)

CachedOps == {"get_team_stats", "get_games", "get_betting_lines", "get_team_ratings"}

DataTypeOf(op) ==
    CASE op = "get_team_stats" -> "team_stats"
      [] op = "get_games" -> "games"
      [] op = "get_betting_lines" -> "betting_lines"
      [] OTHER -> "ratings"

\* the step is a call of an accessor with a team
TeamCallStep ==
    /\ acc_n' = acc_n + 1
    /\ acc_call'.op \in CachedOps
    /\ HasArg(acc_call', "team")

\* before the step, the key of the call has a collection in memory or on disk
KeyOfCall == CacheKey(DataTypeOf(acc_call'.op), acc_call'.season)
Present == KeyOfCall \in DOMAIN cache \/ (KeyOfCall \in DOMAIN disk /\ disk[KeyOfCall].complete)
Held == IF KeyOfCall \in DOMAIN cache THEN cache[KeyOfCall] ELSE disk[KeyOfCall].body

\* the records of the held collection that are the team's
HeldForTeam ==
    LET test(rec) == IF acc_call'.op \in {"get_games", "get_betting_lines"}
                     THEN acc_call'.team \in {rec.homeTeam, rec.awayTeam}
                     ELSE rec.team = acc_call'.team
    IN  SelectSeq(Held, test)

\* the call was answered with the team's records of the held collection
AnsweredFromCache ==
    /\ acc_out'.sent = <<>>
    /\ IF acc_call'.op = "get_team_ratings"
       THEN HeldForTeam # <<>> /\ acc_out'.value = HeldForTeam[1].ratings
       ELSE acc_out'.value = HeldForTeam

\* C13 (as stated): whenever an unfiltered collection for the season and data
\* type is in memory or on disk, a team-scoped call is answered by filtering
\* it and makes no network request, also when the filtered result is empty.
C13_NoRequestWhenCached ==
    [][(TeamCallStep /\ Present) => (acc_out'.sent = <<>>)]_vars

\* C13 (amended): a team-scoped call is answered by filtering the cached
\* collection, with no network request, whenever that collection is in memory
\* or on disk and holds a record of the team; when it holds none, or there is
\* no collection, the call goes to the network.
C13_NoRequestWhenTeamCached ==
    [][TeamCallStep =>
          IF Present /\ HeldForTeam # <<>>
          THEN AnsweredFromCache
          ELSE acc_out'.sent # <<>>]_vars

\* a call for a team was answered from a collection loaded from the file
C13_Witness ==
    /\ acc_call.op = "get_games"
    /\ HasArg(acc_call, "team")
    /\ acc_out.sent = <<>>
    /\ acc_out.value = <<[id |-> 1, homeTeam |-> <<"A">>, awayTeam |-> <<"B">>]>>
    /\ acc_n = 1

\* C14: a team-scoped accessor call never saves to the cache; a worker of a
\* parallel fetch only makes team-scoped calls, so no worker writes a cache
\* file.
C14_TeamCallsNeverSave ==
    [][(acc_n' = acc_n + 1 /\ (HasArg(acc_call', "team") \/ acc_call'.worker)) =>
          /\ HasArg(acc_call', "team")
          /\ ~acc_out'.saved
          /\ disk' = disk]_vars

\* a worker fetched a team's games from the network and saved nothing
C14_Witness ==
    /\ acc_call.op = "get_games"
    /\ acc_call.worker
    /\ acc_out.sent # <<>>
    /\ acc_out.value # <<>>
    /\ ~acc_out.saved

\* C15: no worker of a parallel fetch changes the in-memory cache mapping,
\* also when a cache file is on disk and not yet in memory.
C15_WorkersLeaveMemoryAlone ==
    [][(acc_n' = acc_n + 1 /\ acc_call'.worker) => cache' = cache]_vars

\* C16: after every unfiltered call of get_team_stats, get_games or
\* get_betting_lines the cache entry of the key equals the returned
\* collection, in memory and on disk, also when the fetch returns an empty
\* collection and an older entry exists (no entry, or a file that does not
\* load, stands for the empty collection).
C16_EntryEqualsReturned ==
    (/\ acc_call.op \in {"get_team_stats", "get_games", "get_betting_lines"}
     /\ ~HasArg(acc_call, "team")
     /\ ~acc_out.raised) =>
        LET key == CacheKey(DataTypeOf(acc_call.op), acc_call.season)
        IN  /\ IF key \in DOMAIN cache THEN cache[key] = acc_out.value
                                       ELSE acc_out.value = <<>>
            /\ IF key \in DOMAIN disk /\ disk[key].complete
               THEN disk[key].body = acc_out.value
               ELSE acc_out.value = <<>>

-----------------------------------------------------------------------------
(* Properties of the cache layer *)

\* the positions of the log before n at which `key` was saved
SavesBefore(n, key) ==
    {j \in 1..(n - 1) : cache_log[j].op = "save" /\ cache_log[j].key = key}

Max(S) == CHOOSE x \in S : \A y \in S : y <= x

\* C17: a load of a key returns exactly the collection of the most recent
\* save of that key, nothing merged from earlier saves or other keys; with no
\* save it returns the collection of the key's file and leaves it in the
\* memory tier; with no entry in either tier it returns absent.
C17_LoadReturnsLastSave ==
    (cache_log # <<>> /\ Last(cache_log).op = "load") =>
        LET ld == Last(cache_log)
            saves == SavesBefore(Len(cache_log), ld.key)
        IN  IF saves # {}
            THEN /\ ld.found
                 /\ ld.data = cache_log[Max(saves)].data
                 /\ cache[ld.key] = ld.data
            ELSE IF ld.key \in DOMAIN disk /\ disk[ld.key].complete
            THEN /\ ld.found
                 /\ ld.data = disk[ld.key].body
                 /\ ld.key \in DOMAIN cache
                 /\ cache[ld.key] = ld.data
            ELSE /\ ~ld.found
                 /\ ld.key \notin DOMAIN cache

\* a key was saved, then the other key with another collection, and the load
\* of the first key returned the first collection from the memory tier
C17_Witness ==
    /\ Len(cache_log) = 3
    /\ cache_log[1].op = "save"
    /\ cache_log[2].op = "save"
    /\ cache_log[3].op = "load"
    /\ cache_log[1].key = cache_log[3].key
    /\ cache_log[2].key # cache_log[3].key
    /\ cache_log[1].data # cache_log[2].data
    /\ cache_log[3].data = cache_log[1].data

\* C18: a write that fails leaves no partially written file at the final
\* path: after every step each cache file is what it was before the step or
\* holds a complete collection.
C18_NoPartialFile ==
    [][\A key \in DOMAIN disk' :
          \/ key \in DOMAIN disk /\ disk'[key] = disk[key]
          \/ disk'[key].complete]_vars

-----------------------------------------------------------------------------
(* Properties of the summary and of the completion order *)

DataFiles(fs) == fs \ {File("summary_json", 0)}

\* C19: a failure inside _generate_summary_stats is caught there: the run is
\* not aborted and ends as complete, nothing is raised, and the data files
\* saved before the summary are unchanged.
C19_SummaryFailureIsContained ==
    [][pc = "summary" =>
          /\ pc' = "ended"
          /\ exit' = "complete"
          /\ DataFiles(files') = DataFiles(files)
          /\ Last(statusSeq') = "Data collection complete!"]_vars

\* the summary failed after data files had been saved, and the run completed
C19_Witness ==
    /\ pc = "ended"
    /\ exit = "complete"
    /\ \E k \in DOMAIN statusSeq : statusSeq[k] = "Warning: Error in summary generation"
    /\ File("games_json", 0) \in files
    /\ File("summary_json", 0) \notin files

\* the insertion orders of a results dict that the completion orders can give
Reorderings(items) ==
    {[i \in DOMAIN items |-> items[p[i]]] : p \in Permutations(DOMAIN items)}

GameIdsOf(list) == {list[k].id : k \in {j \in DOMAIN list : HasId(list[j])}}
LineKeysOf(list) == {LineId(list[k]) : k \in DOMAIN list}

\* C20: for the same per-team results, the set of game ids of the merged
\* games and the set of dedup keys of the merged betting lines are the same
\* for every completion order of the units.
C20_MergedKeysIgnoreOrder ==
    /\ mpc # "input" =>
          \A o \in Reorderings(games_results) :
              GameIdsOf(MergeGames(o, EmptyAcc).all) = GameIdsOf(all_games)
    /\ mpc = "lines_merged" =>
          \A o \in Reorderings(betting_results) :
              LineKeysOf(MergeLines(o, EmptyAcc).all) = LineKeysOf(all_betting_lines)

\* two teams share a game: the other completion order gives another merged
\* list with the same game ids
C20_Witness ==
    /\ mpc # "input"
    /\ Len(games_results) = 2
    /\ \E k \in DOMAIN games_results[2].data : ~GameIsNew(games_results[2].data[k], GameIdsOf(games_results[1].data))
    /\ \E o \in Reorderings(games_results) : MergeGames(o, EmptyAcc).all # all_games

-----------------------------------------------------------------------------
(* Properties of the written files *)

\* the rows of the CSV file that _save_data_with_progress wrote
WrittenRows == sv_files[KindPath(CacheSeason, sv_type, CsvExt)].rows

KindSaved == sv_pc = "saved" /\ sv_data # <<>>

IsFlatRow(d) == \A i \in DOMAIN d : d[i].v.t \in {"null", "int", "str"}

\* the same keys with the same values
SameMapping(a, b) ==
    /\ Keys(a) = Keys(b)
    /\ \A i \in DOMAIN a, j \in DOMAIN b : a[i].k = b[j].k => a[i].v = b[j].v

NullsToEmpty(d) ==
    [i \in DOMAIN d |-> IF d[i].v.t = "null" THEN Item(d[i].k, Str(<<>>)) ELSE d[i]]

\* C21 as stated: flatten_data gives back, with the same keys and the same
\* values, every row whose values are all scalars, strings or null, such as a
\* row it has flattened or a row after the header padding.
C21_FlatRowIsFixed ==
    KindSaved =>
        \A k \in DOMAIN sv_data :
            /\ IsFlatRow(sv_data[k]) => SameMapping(FlattenData(sv_data[k]), sv_data[k])
            /\ SameMapping(FlattenData(WrittenRows[k]), WrittenRows[k])

\* C21, amended: flatten_data gives back every row whose values are all
\* scalars or strings; in a flat row with null values it keeps the keys and the
\* other values and turns each null into the empty string; on a row it has
\* flattened it is the identity (flatten_data is idempotent).
C21_FlatRowIsFixedUpToNull ==
    KindSaved =>
        \A k \in DOMAIN sv_data :
            /\ IsFlatRow(sv_data[k])
                  => SameMapping(FlattenData(sv_data[k]), NullsToEmpty(sv_data[k]))
            /\ SameMapping(FlattenData(WrittenRows[k]), NullsToEmpty(WrittenRows[k]))
            /\ FlattenData(FlattenData(sv_data[k])) = FlattenData(sv_data[k])

\* a collection was saved that has a flat row with a null value, a row that
\* the header padding filled with null, and a nested row
C21_Witness ==
    /\ KindSaved
    /\ \E k \in DOMAIN sv_data :
          IsFlatRow(sv_data[k]) /\ \E i \in DOMAIN sv_data[k] : sv_data[k][i].v = Null
    /\ \E k \in DOMAIN sv_data :
          /\ \E i \in DOMAIN WrittenRows[k] : WrittenRows[k][i].v = Null
          /\ Keys(WrittenRows[k]) # Keys(FlattenData(sv_data[k]))
    /\ \E k \in DOMAIN sv_data : ~IsFlatRow(sv_data[k])

\* the leaves of a mapping: the values that are no mapping, each with the path
\* of keys that leads to it
RECURSIVE Leaves(_, _)
Leaves(d, path) ==
    UNION {IF d[i].v.t = "dict"
           THEN Leaves(d[i].v.c, Append(path, d[i].k))
           ELSE {[path |-> Append(path, d[i].k), v |-> d[i].v]} : i \in DOMAIN d}

\* what the flat row holds for a leaf
Rendered(v) ==
    CASE v.t = "null" -> Str(<<>>)
      [] v.t = "list" ->
            IF \A i \in DOMAIN v.c : v.c[i].v.t \in {"int", "str"}
            THEN Str(JoinWith(<<",">>, [i \in DOMAIN v.c |-> PyStr(v.c[i].v)]))
            ELSE Str(JsonDumps(v))
      [] OTHER -> v

\* C22: flatten_data gives each leaf under a path of nested mappings the key
\* that joins the path keys with '_', turns a list of scalars into the
\* comma-joined string, another list into its JSON text and null into the empty
\* string, and every leaf of the input is in the output, also when two paths
\* join to the same key.
C22_EveryLeafUnderItsJoinedKey ==
    KindSaved =>
        \A k \in DOMAIN sv_data :
            /\ \A leaf \in Leaves(sv_data[k], <<>>) :
                  \E i \in DOMAIN WrittenRows[k] :
                      /\ WrittenRows[k][i].k = JoinWith(<<"_">>, leaf.path)
                      /\ WrittenRows[k][i].v = Rendered(leaf.v)
            /\ Keys(FlattenData(sv_data[k]))
                  = {JoinWith(<<"_">>, leaf.path) : leaf \in Leaves(sv_data[k], <<>>)}

\* the headers are the keys of the flattened rows, none twice, with team,
\* season, conference first in that order and the others in ascending order
HeadersAsSpecified(headers, data) ==
    LET first == {i \in DOMAIN headers : headers[i] \in Range(PriorityHeaders)}
        place(h) == CHOOSE i \in DOMAIN PriorityHeaders : PriorityHeaders[i] = h
    IN  /\ Range(headers) = HeaderSet(FlattenAll(data))
        /\ \A i, j \in DOMAIN headers : i # j => headers[i] # headers[j]
        /\ first = 1..Cardinality(first)
        /\ \A i, j \in first : i < j => place(headers[i]) < place(headers[j])
        /\ \A i, j \in DOMAIN headers \ first : i < j => StrLess(headers[i], headers[j])

\* C23: the header list of every CSV file written, the per-kind file and the
\* per-team games files, is the union of the flattened keys of its rows, team,
\* season, conference first when present and the rest in alphabetical order,
\* no key twice.
C23_HeadersPriorityThenSorted ==
    /\ KindSaved =>
          HeadersAsSpecified(sv_files[KindPath(CacheSeason, sv_type, CsvExt)].headers, sv_data)
    /\ \A i \in 1..sv_i :
          HeadersAsSpecified(sv_files[TeamPath(CacheSeason, sv_games[i].team, CsvExt)].headers,
                             sv_games[i].data)

\* C24: the file name of every team of the games results has only
\* alphanumerics, underscore and hyphen, two different teams never have the
\* same file, and there is one JSON and one CSV file per team.
C24_OneFilePairPerTeam ==
    /\ \A i \in 1..sv_i :
          \A c \in Range(SafeTeam(sv_games[i].team)) : IsAlnum(c) \/ c \in {"_", "-"}
    /\ \A i, j \in 1..sv_i :
          i # j => TeamPath(CacheSeason, sv_games[i].team, JsonExt)
                      # TeamPath(CacheSeason, sv_games[j].team, JsonExt)
    /\ Cardinality({p \in DOMAIN sv_files : Len(p.dir) = 2}) = 2 * sv_i

-----------------------------------------------------------------------------
(* Properties of the ratings cache *)

\* the call before the step was get_team_ratings(season) and wrote the entry
RatingsEntryWritten ==
    /\ acc_call.op = "get_team_ratings"
    /\ ~HasArg(acc_call, "team")
    /\ acc_out.saved
    /\ ~acc_out.raised
    /\ CacheKey("ratings", acc_call.season) \in DOMAIN cache

\* the adjusted and SRS ratings of a team in a ratings_data
RatingsOfTeam(ratings_data, team) ==
    [adjusted |-> Select("ratings", ratings_data.adjusted, team),
     srs |-> Select("ratings", ratings_data.srs, team)]

\* C25: after get_team_ratings(season) has written the ratings entry, a later
\* get_team_ratings(season, t) is answered from that entry, without a network
\* request, with the adjusted and SRS ratings of t.
C25_TeamRatingsFromEntry ==
    [][(RatingsEntryWritten /\ TeamCallStep /\ acc_call'.op = "get_team_ratings"
            /\ acc_call'.season = acc_call.season) =>
          /\ acc_out'.sent = <<>>
          /\ acc_out'.value
                = RatingsOfTeam(cache[CacheKey("ratings", acc_call.season)][1].ratings,
                                acc_call'.team)]_vars

-----------------------------------------------------------------------------
(* Properties of the main progress *)

\* the band of a fetch, in tenths of a percent: 0-25, 25-50, 50-75, 75-100
InBand(value, phase) == 250 * (phase - 1) <= value /\ value <= 250 * phase

\* C26: every main-progress value delivered during a run is inside the band
\* of the fetch that is running and is not below the value delivered before
\* it, for every roster and every interleaving of the workers' requests with
\* the milestones.
C26_ProgressInBandAndMonotone ==
    [][(pg_progress' # pg_progress) =>
          /\ InBand(pg_progress', pg_phase)
          /\ pg_progress' >= pg_progress]_vars

\* C27: completed_operations loses no update: after a parallel fetch it is
\* its value before the fetch plus the sum of the increments the workers'
\* requests made (here summed over the fetches so far), for every interleaving.
C27_NoLostIncrement ==
    pg_pc \in {"start", "over"} => pg_ops = pg_sum

-----------------------------------------------------------------------------
(* Properties of the last status *)

WarningStatus == "Warning: Error in summary generation"

\* _generate_summary_stats failed: its handler delivered the warning status
SummaryFailed == \E k \in DOMAIN statusSeq : statusSeq[k] = WarningStatus

\* C28: when the summary generation fails, the last status delivered in the
\* run is the warning status; "Data collection complete!" is the last status
\* only of runs whose summary was generated and saved.
C28_WarningStaysLast ==
    pc = "ended" =>
        /\ SummaryFailed => Last(statusSeq) = WarningStatus
        /\ Last(statusSeq) = "Data collection complete!"
              => (~SummaryFailed /\ File("summary_json", 0) \in files)

-----------------------------------------------------------------------------
(* Termination of _parallel_fetch *)

\* every request terminates and the executor runs its threads: a step of the
\* fetch that can be taken is taken
SpecPoolFair == SpecPool /\ WF_vars(NextPool)

\* the fetch has returned with every unit counted once, and with keys only
\* for the roster teams that have a name and whose unit gave data
ReturnedAsCounted ==
    /\ \A i \in DOMAIN teams : unit[i] = "counted"
    /\ completed = Len(teams)
    /\ Len(subSeq) = Len(teams)
    /\ Last(subSeq).num = 100 * Last(subSeq).den
    /\ \A t \in DOMAIN results :
          \E i \in DOMAIN teams :
              HasSchool(teams[i]) /\ teams[i].school = t /\ outcome[i] = "data"

\* C29: for every non-empty roster and every outcome of every unit (data,
\* empty result, exception), _parallel_fetch terminates, each unit is then
\* counted exactly once (completed = total, last sub-progress 100), and the
\* returned map has a key only for the named teams with a non-empty result.
C29_TerminatesWithTheNonEmptyResults ==
    /\ <>(ppc = "returned")
    /\ [](ppc = "returned" => ReturnedAsCounted)

-----------------------------------------------------------------------------
(* Properties of the files as the dashboard reads them *)

\* the run has ended, with its summary, and saved the JSON file of each of the
\* four collections
FourSaved ==
    /\ exit = "complete"
    /\ ~SummaryFailed
    /\ File("summary_json", 0) \in files
    /\ \A data_type \in DataTypes : File(data_type \o "_json", 0) \in files

\* C30: after a run that saved games, team stats, betting lines and ratings,
\* load_data of the dashboard finds each of the four collections: the files
\* the collector writes are at the paths the dashboard reads.
C30_DashboardFindsTheCollections ==
    FourSaved => DataTypes \subseteq LoadData({PathOf(f) : f \in files})

====
